---- MODULE Spec2Model ----
(***************************************************************************)
(* ytmusic-cli: the playback control subsystem.                            *)
(*                                                                         *)
(* Player (the facade, driven by the UI thread), PlayerThread (one worker  *)
(* thread per Player.start, owning an mpv process handle and an IPC        *)
(* socket), the process registry _mpv_processes, the control-socket file   *)
(* IPC_SERVER_PATH, and the mpv engine processes themselves.               *)
(*                                                                         *)
(* A session is identified by a number 1..MaxSessions, in the order of the *)
(* Player.start calls; the pid of the engine a session spawns is written   *)
(* as the session's number.  Every Python statement that another thread    *)
(* can observe is a step of its own.                                       *)
(***************************************************************************)
EXTENDS Integers, Sequences, FiniteSets

VARIABLES
    \* ---- Player (player.py 362-553)
    playing,          \* Player.playing
    playback,         \* Player.playback: a session, or NoSession for None
    nextSession,      \* number of PlayerThread objects created so far
    \* ---- module state of player.py and the file system
    _mpv_processes,   \* the registry: set of tracked pids
    sockFile,         \* IPC_SERVER_PATH: NoSession = no file, e = bound by engine e
    \* ---- the engine processes (the operating system's view)
    engine,           \* engine[s]: "none" | "running" | "listening" | "dead"
    enginePaused,     \* engine[s]'s pause property
    \* ---- PlayerThread objects (player.py 96-360)
    process,          \* process[s]: self.process is not None
    sock,             \* sock[s]: "none" | "created" | "connected"
    peer,             \* peer[s]: the engine sock[s] is connected to
    rpc,              \* position of PlayerThread.run of session s
    attempts,         \* connect attempts made by run of session s
    mpvPath,          \* result of shutil.which('mpv') in run of session s
    failure,          \* the exception run of session s ends with
    \* ---- the UI thread inside a Player call
    uiPc,             \* position of the UI thread
    uiOp,             \* the Player call in progress
    lastCall,         \* the last completed Player call
    prevCall,         \* the one before it
    lastQuery,        \* value of the last get_property made by a Player call
    \* ---- one call of PlayerThread.get_property on given response bytes
    response,         \* what sock.recv(1024) returned, as a sequence of messages
    gpPc,             \* "call" | "returned"
    gpResult,         \* what get_property returned (or raised)
    \* ---- one evaluation of the progress formula
    pctPos,           \* time_pos
    pctDur,           \* duration
    pctPc,            \* "input" | "poller" | "toggle"
    pctOut,           \* progress
    \* ---- Interface: the shared snapshot and the poller thread
    latest_time_pos,  \* Interface._latest_time_pos
    latest_duration,  \* Interface._latest_duration
    latest_is_paused, \* Interface._latest_is_paused
    latest_progress,  \* Interface._latest_progress
    pollPc,           \* position of Interface._update_progress_loop
    time_pos,         \* its locals
    duration,
    is_paused,
    progress,
    \* ---- calls of PlayerThread.terminate / Player.stop taken on their own
    termPc,           \* position inside the call
    termCalls,        \* calls completed
    termFaults,       \* the steps of the call in progress (or just over) that failed
    unlinkFails,      \* os.unlink(IPC_SERVER_PATH) raises OSError
    unlinkTried,      \* the call reached the unlink of 261-263
    \* ---- the exit of the application (player.py 33-93)
    PSUTIL_AVAILABLE, \* player.py 16-20
    recycled,         \* recycled[s]: what pid s belongs to once engine s is gone and reaped
    trackedAtExit,    \* list(_mpv_processes) of line 36
    forceKilled,      \* engines the exit hook had to force-kill
    strangers,        \* pids of unrelated processes the exit hook signalled
    \* ---- one session's control channel taken on its own (player.py 164-175, 267-296)
    connPc,           \* the socket of run: new, made, connected, shutdown
    sock_timeout,     \* the timeout set on self.sock; None: blocking
    sndEngine,        \* the engine at the other end: answers, wedged, dead
    sndPc,            \* position inside send_command
    sndCaller,        \* the thread inside send_command
    sndCmd,           \* the kind of request it sends
    pending,          \* a request the engine has not answered
    inbox,            \* a response the caller has not read
    sndOut,           \* what the last call returned
    sndCalls,         \* calls completed
    \* ---- the shutdown (interface.py 98-109, 140-168)
    update_event,     \* Interface.update_event is set
    loopPc,           \* position of the poller thread
    loopSession,      \* the session its query in progress goes to
    loopQueries,      \* queries of the tick in progress that are over
    blockedAtSet,     \* the poller was inside recv when the event was set
    \* ---- the requests of the control calls (player.py 287)
    sent,             \* the requests the last control call wrote to its socket, in order
    \* ---- Player.search (player.py 383-399)
    searchPc,         \* position inside search
    query,            \* its argument, a sequence of characters
    apiQuery,         \* what ytmusic.search was called with, None if it was not
    apiOutcome,       \* none, returned, raised
    cbArg,            \* the argument of the callback invocation that is next
    cbFrom,           \* where that invocation is: guard (391), try (396), except (399)
    callbackCalls,    \* invocations of the callback in this search
    callbackArgs,     \* their arguments
    searches,         \* searches completed
    pairPc,           \* per thread, in send_command: idle, recv, returned
    asked,            \* per thread, its request: <<command, number>>
    received,         \* per thread, what its query returned
    toEngine,         \* requests written to the socket, not yet read by mpv
    fromEngine,       \* messages mpv has written, not yet received
    requests,         \* requests made
    events,           \* event messages emitted
    stack,            \* the main thread's frames: the program, then the handlers
    process_lock,     \* _process_lock: 0 free, else the frame that holds it
    signals,          \* signals delivered
    searching,        \* Interface.searching
    status_text,      \* Interface.status_text, a sequence of characters
    lastKey,          \* the key handled last
    effect,           \* what handling it did
    submitted,        \* the query of the last search submitted
    inflight,         \* searches whose callback has not run
    quit              \* ExitMainLoop has been raised

lifeVars == <<playing, playback, nextSession, _mpv_processes, sockFile, engine,
              enginePaused, process, sock, peer, rpc, attempts, mpvPath, failure,
              uiPc, uiOp, lastCall, prevCall, lastQuery>>

propVars == <<response, gpPc, gpResult>>

pctVars == <<pctPos, pctDur, pctPc, pctOut>>

snapVars == <<latest_time_pos, latest_duration, latest_is_paused, latest_progress,
              pollPc, time_pos, duration, is_paused, progress>>

termVars == <<termPc, termCalls, termFaults, unlinkFails, unlinkTried>>

\* The state of the operations studied on their own.
exitVars == <<PSUTIL_AVAILABLE, recycled, trackedAtExit, forceKilled, strangers>>

sendVars == <<connPc, sock_timeout, sndEngine, sndPc, sndCaller, sndCmd, pending,
              inbox, sndOut, sndCalls>>

shutVars == <<update_event, loopPc, loopSession, loopQueries, blockedAtSet>>

wireVars == <<sent>>

searchVars == <<searchPc, query, apiQuery, apiOutcome, cbArg, cbFrom, callbackCalls,
                callbackArgs, searches>>

pairVars == <<pairPc, asked, received, toEngine, fromEngine, requests, events>>

sigVars == <<stack, process_lock, signals>>

keyVars == <<searching, status_text, lastKey, effect, submitted, inflight, quit>>

moreVars == <<sendVars, shutVars, wireVars, searchVars, pairVars, sigVars, keyVars>>

\* What a control call leaves alone besides the lifecycle.
ctlPure == <<propVars, pctVars, snapVars, termVars, exitVars, sendVars, shutVars,
             searchVars, pairVars, sigVars, keyVars>>

extVars == <<termVars, exitVars, moreVars>>

\* What the lifecycle and the control calls leave alone.
pureVars == <<propVars, pctVars, snapVars, extVars>>

vars == <<lifeVars, propVars, pctVars, snapVars, extVars>>

\* Number of Player.start calls explored.
MaxSessions == 2

\* Player.playback = None
NoSession == 0

Sessions == 1..MaxSessions

\* Optional values: Python's None, and a value that is present.
None == <<>>
Some(v) == <<v>>

\* An exception leaving a call instead of a value.
Raised == <<"raise", "TypeError">>

\* max_retries of PlayerThread.run
max_retries == 5

Alive == {"running", "listening"}

AliveEngines == {e \in Sessions : engine[e] \in Alive}

Finished == {"done_ok", "done_err"}

\* No PlayerThread.run is in progress.
WorkersQuiescent == \A s \in Sessions : rpc[s] \in Finished \cup {"unstarted"}

(***************************************************************************)
(* Initial state: Player.__init__, module import of player.py.             *)
(***************************************************************************)
LifeInit ==
    /\ playing = FALSE
    /\ playback = NoSession
    /\ nextSession = 0
    /\ _mpv_processes = {}
    /\ sockFile = NoSession
    /\ engine = [s \in Sessions |-> "none"]
    /\ enginePaused = [s \in Sessions |-> FALSE]
    /\ process = [s \in Sessions |-> FALSE]
    /\ sock = [s \in Sessions |-> "none"]
    /\ peer = [s \in Sessions |-> NoSession]
    /\ rpc = [s \in Sessions |-> "unstarted"]
    /\ attempts = [s \in Sessions |-> 0]
    /\ mpvPath = [s \in Sessions |-> "unset"]
    /\ failure = [s \in Sessions |-> "none"]
    /\ uiPc = "idle"
    /\ uiOp = "none"
    /\ lastCall = "none"
    /\ prevCall = "none"
    /\ lastQuery = None

\* No get_property call under study.
PropIdle ==
    /\ response = <<>>
    /\ gpPc = "returned"
    /\ gpResult = None

\* No progress evaluation under study.
PctIdle ==
    /\ pctPos = None
    /\ pctDur = None
    /\ pctPc = "input"
    /\ pctOut = <<0, 1>>

\* Interface.__init__ (interface.py 29-36): the snapshot, and the poller
\* thread waiting for its first tick.
SnapInit ==
    /\ latest_time_pos = None
    /\ latest_duration = None
    /\ latest_is_paused = None
    /\ latest_progress = <<0, 1>>
    /\ pollPc = "wait"
    /\ time_pos = None
    /\ duration = None
    /\ is_paused = None
    /\ progress = <<0, 1>>

\* No terminate call under study.
TermIdle ==
    /\ termPc = "idle"
    /\ termCalls = 0
    /\ termFaults = {}
    /\ unlinkFails = FALSE
    /\ unlinkTried = FALSE

\* The application is running: psutil is installed (setup.py 39), no pid
\* has been reused.
ExitIdle ==
    /\ PSUTIL_AVAILABLE = TRUE
    /\ recycled = [s \in Sessions |-> "no"]
    /\ trackedAtExit = {}
    /\ forceKilled = {}
    /\ strangers = {}

SendIdle ==
    /\ connPc = "new"
    /\ sock_timeout = <<>>
    /\ sndEngine = "answers"
    /\ sndPc = "idle"
    /\ sndCaller = "ui"
    /\ sndCmd = "get_property"
    /\ pending = FALSE
    /\ inbox = FALSE
    /\ sndOut = <<>>
    /\ sndCalls = 0

ShutIdle ==
    /\ update_event = FALSE
    /\ loopPc = "wait"
    /\ loopSession = NoSession
    /\ loopQueries = 0
    /\ blockedAtSet = FALSE

WireIdle == sent = <<>>

SearchIdle ==
    /\ searchPc = "idle"
    /\ query = <<>>
    /\ apiQuery = None
    /\ apiOutcome = "none"
    /\ cbArg = "none"
    /\ cbFrom = "none"
    /\ callbackCalls = 0
    /\ callbackArgs = <<>>
    /\ searches = 0

PairIdle ==
    /\ pairPc = [c \in {"poller", "ui"} |-> "idle"]
    /\ asked = [c \in {"poller", "ui"} |-> <<"none", 0>>]
    /\ received = [c \in {"poller", "ui"} |-> <<>>]
    /\ toEngine = <<>>
    /\ fromEngine = <<>>
    /\ requests = 0
    /\ events = 0

SigIdle ==
    /\ stack = <<[pc |-> "loop", ret |-> "loop"]>>
    /\ process_lock = 0
    /\ signals = 0

\* interface.py 25-26
KeyIdle ==
    /\ searching = FALSE
    /\ status_text = <<>>
    /\ lastKey = "none"
    /\ effect = "none"
    /\ submitted = <<>>
    /\ inflight = 0
    /\ quit = FALSE

MoreIdle ==
    SendIdle /\ ShutIdle /\ WireIdle /\ SearchIdle /\ PairIdle /\ SigIdle /\ KeyIdle

ExtIdle == TermIdle /\ ExitIdle /\ MoreIdle

Init == LifeInit /\ PropIdle /\ PctIdle /\ SnapInit /\ ExtIdle

(***************************************************************************)
(* The engine (mpv), an external process.                                  *)
(***************************************************************************)

\* A connect() to IPC_SERVER_PATH is answered by the engine that bound the
\* file, if that engine is still listening.
Listener == IF sockFile # NoSession /\ engine[sockFile] = "listening"
            THEN sockFile ELSE NoSession

\* What is left of the socket file when engine e ends: a graceful exit
\* removes the file it bound, a kill or crash leaves it behind.
FileAfterExit(e) == IF sockFile = e THEN {NoSession, e} ELSE {sockFile}

\* mpv started with --input-ipc-server binds the path, replacing any file.
EngineListen(e) ==
    /\ engine[e] = "running"
    /\ engine' = [engine EXCEPT ![e] = "listening"]
    /\ sockFile' = e
    /\ UNCHANGED pureVars
    /\ UNCHANGED <<playing, playback, nextSession, _mpv_processes, enginePaused,
                   process, sock, peer, rpc, attempts, mpvPath, failure,
                   uiPc, uiOp, lastCall, prevCall, lastQuery>>

\* mpv ends by itself (end of track, unplayable url, crash).
EngineExit(e) ==
    /\ engine[e] \in Alive
    /\ engine' = [engine EXCEPT ![e] = "dead"]
    /\ sockFile' \in FileAfterExit(e)
    /\ UNCHANGED pureVars
    /\ UNCHANGED <<playing, playback, nextSession, _mpv_processes, enginePaused,
                   process, sock, peer, rpc, attempts, mpvPath, failure,
                   uiPc, uiOp, lastCall, prevCall, lastQuery>>

(***************************************************************************)
(* _cleanup_orphaned_mpv (player.py 71-88): the file exists and nobody     *)
(* answers a connect: unlink it.                                           *)
(***************************************************************************)
\* (a check that never unlinks)
cleanup_orphaned_mpv_keeps == sockFile

cleanup_orphaned_mpv ==
    IF sockFile # NoSession /\ Listener = NoSession THEN NoSession ELSE sockFile

(***************************************************************************)
(* PlayerThread.terminate (player.py 197-265), statement by statement.     *)
(* It runs on the UI thread (Player.stop) and on the worker itself (the    *)
(* error path of run), possibly both at once on the same object: each      *)
(* caller keeps its own position, these are the effects on shared state.   *)
(***************************************************************************)

\* 200-210: if self.sock: shutdown, close, self.sock = None
terminate_sock(s) ==
    /\ sock' = [sock EXCEPT ![s] = "none"]
    /\ peer' = [peer EXCEPT ![s] = NoSession]

\* 213-218: if self.process: pid = self.process.pid;
\*          with _process_lock: _mpv_processes.discard(pid)
\* (with self.process None the whole block 213-258 is skipped)
terminate_has_process(s) == process[s]

terminate_discard(s) ==
    _mpv_processes' = IF terminate_has_process(s) THEN _mpv_processes \ {s}
                                                  ELSE _mpv_processes

AfterDiscard(s) == IF terminate_has_process(s) THEN "t_kill" ELSE "t_unlink"

\* 221-258: SIGTERM to the process group, wait(2), SIGKILL on timeout (or the
\* last-resort os.kill when self.process was cleared meanwhile);
\* finally self.process = None
terminate_kill(s) ==
    /\ engine' = [engine EXCEPT ![s] = IF @ \in Alive THEN "dead" ELSE @]
    /\ sockFile' \in (IF engine[s] \in Alive THEN FileAfterExit(s) ELSE {sockFile})
    /\ process' = [process EXCEPT ![s] = FALSE]

\* 261-265: if os.path.exists(IPC_SERVER_PATH): os.unlink(IPC_SERVER_PATH)
terminate_unlink == sockFile' = NoSession

(***************************************************************************)
(* PlayerThread.run (player.py 110-195) of session s.                      *)
(***************************************************************************)

\* 114-128: _cleanup_orphaned_mpv(), notify-send
RunCleanup(s) ==
    /\ rpc[s] = "cleanup"
    /\ sockFile' = cleanup_orphaned_mpv
    /\ rpc' = [rpc EXCEPT ![s] = "which"]
    /\ UNCHANGED pureVars
    /\ UNCHANGED <<playing, playback, nextSession, _mpv_processes, engine,
                   enginePaused, process, sock, peer, attempts, mpvPath, failure,
                   uiPc, uiOp, lastCall, prevCall, lastQuery>>

\* 131-134: mpv_path = shutil.which('mpv'); raise FileNotFoundError if absent
\* (a run that goes on to Popen without looking at mpv_path)
WhichNext_unchecked(found) == "popen"

WhichNext(found) == IF found = "found" THEN "popen" ELSE "t_sock"

RunWhich(s) ==
    /\ rpc[s] = "which"
    /\ \E found \in {"found", "missing"} :
        /\ mpvPath' = [mpvPath EXCEPT ![s] = found]
        /\ rpc' = [rpc EXCEPT ![s] = WhichNext(found)]
        /\ failure' = [failure EXCEPT ![s] =
                          IF found = "found" THEN @ ELSE "EngineNotFound"]
    /\ UNCHANGED pureVars
    /\ UNCHANGED <<playing, playback, nextSession, _mpv_processes, sockFile, engine,
                   enginePaused, process, sock, peer, attempts,
                   uiPc, uiOp, lastCall, prevCall, lastQuery>>

\* 144-157: self.process = subprocess.Popen(...), or Popen raises
RunPopen(s) ==
    /\ rpc[s] = "popen"
    /\ \/ /\ engine' = [engine EXCEPT ![s] = "running"]
          /\ enginePaused' = [enginePaused EXCEPT ![s] = FALSE]
          /\ process' = [process EXCEPT ![s] = TRUE]
          /\ rpc' = [rpc EXCEPT ![s] = "track"]
          /\ UNCHANGED failure
       \/ /\ rpc' = [rpc EXCEPT ![s] = "t_sock"]
          /\ failure' = [failure EXCEPT ![s] = "SpawnFailed"]
          /\ UNCHANGED <<engine, enginePaused, process>>
    /\ UNCHANGED pureVars
    /\ UNCHANGED <<playing, playback, nextSession, _mpv_processes, sockFile,
                   sock, peer, attempts, mpvPath,
                   uiPc, uiOp, lastCall, prevCall, lastQuery>>

\* 160: if self.process and self.process.pid:  -- the registration of
\* 161-162 comes next, before the socket of 165
\* (a run that goes on to the socket without registering)
AfterTrack_unregistered(has) == "mksock"

AfterTrack(has) == IF has THEN "add" ELSE "mksock"

RunTrack(s) ==
    /\ rpc[s] = "track"
    /\ rpc' = [rpc EXCEPT ![s] = AfterTrack(process[s])]
    /\ UNCHANGED pureVars
    /\ UNCHANGED <<playing, playback, nextSession, _mpv_processes, sockFile, engine,
                   enginePaused, process, sock, peer, attempts, mpvPath, failure,
                   uiPc, uiOp, lastCall, prevCall, lastQuery>>

\* 161-162: with _process_lock: _mpv_processes.add(self.process.pid)
\* (AttributeError when self.process was cleared since line 160)
RunAdd(s) ==
    /\ rpc[s] = "add"
    /\ IF process[s]
       THEN /\ _mpv_processes' = _mpv_processes \cup {s}
            /\ rpc' = [rpc EXCEPT ![s] = "mksock"]
            /\ UNCHANGED failure
       ELSE /\ rpc' = [rpc EXCEPT ![s] = "t_sock"]
            /\ failure' = [failure EXCEPT ![s] = "Error"]
            /\ UNCHANGED _mpv_processes
    /\ UNCHANGED pureVars
    /\ UNCHANGED <<playing, playback, nextSession, sockFile, engine,
                   enginePaused, process, sock, peer, attempts, mpvPath,
                   uiPc, uiOp, lastCall, prevCall, lastQuery>>

\* 165-166: self.sock = socket.socket(AF_UNIX, SOCK_STREAM)
RunSocket(s) ==
    /\ rpc[s] = "mksock"
    /\ sock' = [sock EXCEPT ![s] = "created"]
    /\ rpc' = [rpc EXCEPT ![s] = "connect"]
    /\ UNCHANGED pureVars
    /\ UNCHANGED <<playing, playback, nextSession, _mpv_processes, sockFile, engine,
                   enginePaused, process, peer, attempts, mpvPath, failure,
                   uiPc, uiOp, lastCall, prevCall, lastQuery>>

\* 170-190: one pass of the retry loop: sleep(0.5); self.sock.connect(...)
\*   connected: break;  refused or no file: next attempt, or after the last
\*   one the clean-up of 180-186 and raise;  self.sock cleared by a
\*   concurrent terminate: AttributeError, raise (188-190)
AfterFailedAttempt(n) == IF n >= max_retries THEN "lastfail" ELSE "connect"

RunConnect(s) ==
    /\ rpc[s] = "connect"
    /\ IF sock[s] = "none"
       THEN /\ rpc' = [rpc EXCEPT ![s] = "t_sock"]
            /\ failure' = [failure EXCEPT ![s] = "Error"]
            /\ UNCHANGED <<sock, peer, attempts>>
       ELSE /\ attempts' = [attempts EXCEPT ![s] = @ + 1]
            /\ IF Listener # NoSession
               THEN /\ sock' = [sock EXCEPT ![s] = "connected"]
                    /\ peer' = [peer EXCEPT ![s] = Listener]
                    /\ rpc' = [rpc EXCEPT ![s] = "done_ok"]
                    /\ UNCHANGED failure
               ELSE /\ rpc' = [rpc EXCEPT ![s] = AfterFailedAttempt(attempts[s] + 1)]
                    /\ UNCHANGED <<sock, peer, failure>>
    /\ UNCHANGED pureVars
    /\ UNCHANGED <<playing, playback, nextSession, _mpv_processes, sockFile, engine,
                   enginePaused, process, mpvPath,
                   uiPc, uiOp, lastCall, prevCall, lastQuery>>

\* 177-187: after the last failed attempt: if self.process: terminate(),
\* wait(timeout=1), kill() if that raised; raise
RunLastFail(s) ==
    /\ rpc[s] = "lastfail"
    /\ IF process[s]
       THEN /\ engine' = [engine EXCEPT ![s] = IF @ \in Alive THEN "dead" ELSE @]
            /\ sockFile' \in (IF engine[s] \in Alive THEN FileAfterExit(s)
                                                    ELSE {sockFile})
       ELSE UNCHANGED <<engine, sockFile>>
    /\ failure' = [failure EXCEPT ![s] = "ConnectFailed"]
    /\ rpc' = [rpc EXCEPT ![s] = "t_sock"]
    /\ UNCHANGED pureVars
    /\ UNCHANGED <<playing, playback, nextSession, _mpv_processes,
                   enginePaused, process, sock, peer, attempts, mpvPath,
                   uiPc, uiOp, lastCall, prevCall, lastQuery>>

\* 191-195: except Exception: self.terminate(); raise  -- terminate's steps
RunTermSock(s) ==
    /\ rpc[s] = "t_sock"
    /\ terminate_sock(s)
    /\ rpc' = [rpc EXCEPT ![s] = "t_discard"]
    /\ UNCHANGED pureVars
    /\ UNCHANGED <<playing, playback, nextSession, _mpv_processes, sockFile, engine,
                   enginePaused, process, attempts, mpvPath, failure,
                   uiPc, uiOp, lastCall, prevCall, lastQuery>>

RunTermDiscard(s) ==
    /\ rpc[s] = "t_discard"
    /\ terminate_discard(s)
    /\ rpc' = [rpc EXCEPT ![s] = AfterDiscard(s)]
    /\ UNCHANGED pureVars
    /\ UNCHANGED <<playing, playback, nextSession, sockFile, engine,
                   enginePaused, process, sock, peer, attempts, mpvPath, failure,
                   uiPc, uiOp, lastCall, prevCall, lastQuery>>

RunTermKill(s) ==
    /\ rpc[s] = "t_kill"
    /\ terminate_kill(s)
    /\ rpc' = [rpc EXCEPT ![s] = "t_unlink"]
    /\ UNCHANGED pureVars
    /\ UNCHANGED <<playing, playback, nextSession, _mpv_processes,
                   enginePaused, sock, peer, attempts, mpvPath, failure,
                   uiPc, uiOp, lastCall, prevCall, lastQuery>>

RunTermUnlink(s) ==
    /\ rpc[s] = "t_unlink"
    /\ terminate_unlink
    /\ rpc' = [rpc EXCEPT ![s] = "done_err"]
    /\ UNCHANGED pureVars
    /\ UNCHANGED <<playing, playback, nextSession, _mpv_processes, engine,
                   enginePaused, process, sock, peer, attempts, mpvPath, failure,
                   uiPc, uiOp, lastCall, prevCall, lastQuery>>

(***************************************************************************)
(* Player.stop / Player.start (player.py 461-481) on the UI thread.        *)
(***************************************************************************)

\* The call in progress returns: the UI thread is idle again.
Returns(op) ==
    /\ uiPc' = "idle"
    /\ uiOp' = "none"
    /\ lastCall' = op
    /\ prevCall' = lastCall

\* 468-470: self.playback = PlayerThread(url); self.playback.start();
\* self.playing = True
start_new ==
    /\ nextSession' = nextSession + 1
    /\ playback' = nextSession + 1
    /\ rpc' = [rpc EXCEPT ![nextSession + 1] = "cleanup"]
    /\ playing' = TRUE

\* Player.stop() with self.playback None: nothing to do
CallStopIdle ==
    /\ uiPc = "idle"
    /\ playback = NoSession
    /\ Returns("stop")
    /\ lastQuery' = None
    /\ UNCHANGED pureVars
    /\ UNCHANGED <<playing, playback, nextSession, _mpv_processes, sockFile, engine,
                   enginePaused, process, sock, peer, rpc, attempts, mpvPath, failure>>

\* Player.stop() / Player.start(url) with a session: 474-476, enter terminate
CallStop(op, limit) ==
    /\ uiPc = "idle"
    /\ playback # NoSession
    /\ op = "start" => nextSession < limit
    /\ uiOp' = op
    /\ uiPc' = "t_sock"
    /\ lastQuery' = None
    /\ UNCHANGED pureVars
    /\ UNCHANGED <<playing, playback, nextSession, _mpv_processes, sockFile, engine,
                   enginePaused, process, sock, peer, rpc, attempts, mpvPath, failure,
                   lastCall, prevCall>>

\* Player.start(url) with self.playback None: stop() does nothing, 468-470
CallStartFresh(limit) ==
    /\ uiPc = "idle"
    /\ playback = NoSession
    /\ nextSession < limit
    /\ start_new
    /\ Returns("start")
    /\ lastQuery' = None
    /\ UNCHANGED pureVars
    /\ UNCHANGED <<_mpv_processes, sockFile, engine, enginePaused, process, sock,
                   peer, attempts, mpvPath, failure>>

UiTermSock ==
    /\ uiPc = "t_sock"
    /\ terminate_sock(playback)
    /\ uiPc' = "t_discard"
    /\ UNCHANGED pureVars
    /\ UNCHANGED <<playing, playback, nextSession, _mpv_processes, sockFile, engine,
                   enginePaused, process, rpc, attempts, mpvPath, failure,
                   uiOp, lastCall, prevCall, lastQuery>>

UiTermDiscard ==
    /\ uiPc = "t_discard"
    /\ terminate_discard(playback)
    /\ uiPc' = AfterDiscard(playback)
    /\ UNCHANGED pureVars
    /\ UNCHANGED <<playing, playback, nextSession, sockFile, engine,
                   enginePaused, process, sock, peer, rpc, attempts, mpvPath, failure,
                   uiOp, lastCall, prevCall, lastQuery>>

UiTermKill ==
    /\ uiPc = "t_kill"
    /\ terminate_kill(playback)
    /\ uiPc' = "t_unlink"
    /\ UNCHANGED pureVars
    /\ UNCHANGED <<playing, playback, nextSession, _mpv_processes,
                   enginePaused, sock, peer, rpc, attempts, mpvPath, failure,
                   uiOp, lastCall, prevCall, lastQuery>>

UiTermUnlink ==
    /\ uiPc = "t_unlink"
    /\ terminate_unlink
    /\ uiPc' = "stopped"
    /\ UNCHANGED pureVars
    /\ UNCHANGED <<playing, playback, nextSession, _mpv_processes, engine,
                   enginePaused, process, sock, peer, rpc, attempts, mpvPath, failure,
                   uiOp, lastCall, prevCall, lastQuery>>

\* 479-481: finally: self.playback = None; self.playing = False -- and, in
\* Player.start, 468-470
\* 479-481: finally: self.playback = None; self.playing = False
\* (a stop that clears the session and leaves the flag)
PlayingAfterStop_kept == playing

PlayingAfterStop == FALSE

UiStopped ==
    /\ uiPc = "stopped"
    /\ uiOp \in {"start", "stop"}
    /\ IF uiOp = "start"
       THEN start_new
       ELSE /\ playback' = NoSession
            /\ playing' = PlayingAfterStop
            /\ UNCHANGED <<nextSession, rpc>>
    /\ Returns(uiOp)
    /\ UNCHANGED pureVars
    /\ UNCHANGED <<_mpv_processes, sockFile, engine, enginePaused, process, sock,
                   peer, attempts, mpvPath, failure, lastQuery>>

(***************************************************************************)
(* The lifecycle specification: the UI thread starts and stops sessions,   *)
(* the workers run, the engines live and die.                              *)
(***************************************************************************)
Worker(s) ==
    \/ RunCleanup(s)
    \/ RunWhich(s)
    \/ RunPopen(s)
    \/ RunTrack(s)
    \/ RunAdd(s)
    \/ RunSocket(s)
    \/ RunConnect(s)
    \/ RunLastFail(s)
    \/ RunTermSock(s)
    \/ RunTermDiscard(s)
    \/ RunTermKill(s)
    \/ RunTermUnlink(s)

UiLife(limit) ==
    \/ CallStopIdle
    \/ CallStop("stop", limit)
    \/ CallStop("start", limit)
    \/ CallStartFresh(limit)
    \/ UiTermSock
    \/ UiTermDiscard
    \/ UiTermKill
    \/ UiTermUnlink
    \/ UiStopped

Engines(e) ==
    \/ EngineListen(e)
    \/ EngineExit(e)

LifeNext ==
    \/ UiLife(MaxSessions)
    \/ \E s \in Sessions : Worker(s)
    \/ \E e \in Sessions : Engines(e)

Spec == Init /\ [][LifeNext]_vars

(***************************************************************************)
(* The control calls: PlayerThread.send_command / get_property             *)
(* (player.py 267-360) and Player.play / pause / seek / is_paused /        *)
(* get_time_pos / get_duration (player.py 483-546).                        *)
(***************************************************************************)

\* The request/response exchange of send_command can succeed: the socket is
\* connected, the session's own process has not exited (281), and the engine
\* at the other end is alive.
Reachable(s) ==
    /\ sock[s] = "connected"
    /\ ~(process[s] /\ engine[s] \notin Alive)
    /\ engine[peer[s]] \in Alive

\* send_command (267-296), its possible results:
\*   276-278  no socket: None;  281-283 own process exited: None;
\*   287-290  sendall + recv: the response bytes, b'' from an engine that
\*            closed its end, or None through the except clauses 291-296
\*            (socket not connected, broken pipe, reset, timeout)
send_command(s) ==
    IF sock[s] = "none" THEN {None}
    ELSE IF process[s] /\ engine[s] \notin Alive THEN {None}
    ELSE IF sock[s] = "connected" /\ engine[peer[s]] \in Alive
         THEN {Some("response"), None}
    ELSE IF sock[s] = "connected" THEN {Some("empty"), None}
    ELSE {None}

\* The value a property has in the engine, as it comes back in "data".
PropertyValue(e, name) ==
    IF name = "pause" THEN (IF enginePaused[e] THEN Some("true") ELSE Some("false"))
                      ELSE Some("num")

\* get_property (306-324) on the result of send_command: the value of "data",
\* None for an empty, malformed or data-less response, or the exception that
\* 322 does not catch.
get_property(s, name) ==
    UNION {IF out = Some("response")
           THEN {PropertyValue(peer[s], name), None, Raised}
           ELSE {None} : out \in send_command(s)}

\* The engine executes a set_property pause request that reached it; when the
\* exchange failed after sendall the request may or may not have arrived.
PauseApplied(s, out) ==
    IF out = Some("response") THEN {TRUE}
    ELSE IF Reachable(s) THEN {TRUE, FALSE}
    ELSE {FALSE}

\* 490 / 501:  self.playing = not is_paused if is_paused is not None
\*                            else True (play) / False (pause)
\* (a flag set from the action sent, whatever the engine answered)
PlayingAfter_assumed(op, paused) == op = "play"

PlayingAfter(op, paused) ==
    IF paused # None THEN paused = Some("false") ELSE op = "play"

\* The requests as written by json.dumps / config.py 16-17:
\*   PLAY_CMD / PAUSE_CMD  {"command": ["set_property", "pause", false / true]}
\*   get_property (315)    {"command": ["get_property", name]}
\*   seek (357-358)        {"command": ["seek", seconds, "relative" / "absolute"]}
PauseRequest(op) == <<"set_property", "pause", op = "pause">>

PropertyRequest(name) == <<"get_property", name>>

\* 357: seek_type = "relative" if relative else "absolute"
\* (a seek that ignores the flag)
SeekType_absolute(relative) == "absolute"

SeekType(relative) == IF relative THEN "relative" ELSE "absolute"

SeekRequest(seconds, relative) == <<"seek", seconds, SeekType(relative)>>

\* interface.py 322, 326: seek(-10, relative=True), seek(10, relative=True);
\* Player.seek's default is relative=False
SeekSeconds == {-10, 10}

\* send_command 276-287 on session s: the request is written by sendall when
\* there is a socket, the own process has not exited and the socket is
\* connected to a live engine; otherwise nothing is written
Written(s, request) == IF Reachable(s) THEN <<request>> ELSE <<>>

\* 511-513, 521-523, 531-533, 542: with self.playback None the call is not
\* forwarded: nothing is written
\* (an accessor that probes the engine anyway)
WrittenWithoutSession_probe(op) == <<PropertyRequest(op)>>

WrittenWithoutSession(op) == <<>>

\* Player.play / Player.pause, 485-487 / 496-498: self.playback.play() or
\* .pause(): send_command(PLAY_CMD / PAUSE_CMD)
CallPlayPause(op) ==
    /\ uiPc = "idle"
    /\ playback # NoSession
    /\ \E out \in send_command(playback) : \E applied \in PauseApplied(playback, out) :
          enginePaused' = IF applied
                          THEN [enginePaused EXCEPT ![peer[playback]] = (op = "pause")]
                          ELSE enginePaused
    /\ sent' = Written(playback, PauseRequest(op))
    /\ uiOp' = op
    /\ uiPc' = "requery"
    /\ lastQuery' = None
    /\ UNCHANGED ctlPure
    /\ UNCHANGED <<playing, playback, nextSession, _mpv_processes, sockFile, engine,
                   process, sock, peer, rpc, attempts, mpvPath, failure,
                   lastCall, prevCall>>

\* 489-492 / 500-503: is_paused = self.playback.is_paused(); set self.playing;
\* an exception is logged and leaves self.playing as it was
Requery ==
    /\ uiPc = "requery"
    /\ \E r \in get_property(playback, "pause") :
          /\ lastQuery' = r
          /\ playing' = IF r = Raised THEN playing ELSE PlayingAfter(uiOp, r)
    /\ sent' = sent \o Written(playback, PropertyRequest("pause"))
    /\ Returns(uiOp)
    /\ UNCHANGED ctlPure
    /\ UNCHANGED <<playback, nextSession, _mpv_processes, sockFile, engine,
                   enginePaused, process, sock, peer, rpc, attempts, mpvPath, failure>>

\* Player.seek (535-546) -> PlayerThread.seek (350-359): one send_command,
\* nothing returned
CallSeek(seconds, relative) ==
    /\ uiPc = "idle"
    /\ playback # NoSession
    /\ \E out \in send_command(playback) : lastQuery' = None
    /\ sent' = Written(playback, SeekRequest(seconds, relative))
    /\ Returns("seek")
    /\ UNCHANGED ctlPure
    /\ UNCHANGED <<playing, playback, nextSession, _mpv_processes, sockFile, engine,
                   enginePaused, process, sock, peer, rpc, attempts, mpvPath, failure>>

\* Player.is_paused / get_time_pos / get_duration (505-533)
Accessor(name) ==
    IF name = "pause" THEN "is_paused"
    ELSE IF name = "time-pos" THEN "get_time_pos" ELSE "get_duration"

CallQuery(name) ==
    /\ uiPc = "idle"
    /\ playback # NoSession
    /\ \E r \in get_property(playback, name) : lastQuery' = r
    /\ sent' = Written(playback, PropertyRequest(name))
    /\ Returns(Accessor(name))
    /\ UNCHANGED ctlPure
    /\ UNCHANGED <<playing, playback, nextSession, _mpv_processes, sockFile, engine,
                   enginePaused, process, sock, peer, rpc, attempts, mpvPath, failure>>

\* Any control call with self.playback None: nothing is sent, None returned
CallNoSession(op) ==
    /\ uiPc = "idle"
    /\ playback = NoSession
    /\ lastQuery' = None
    /\ sent' = WrittenWithoutSession(op)
    /\ Returns(op)
    /\ UNCHANGED ctlPure
    /\ UNCHANGED <<playing, playback, nextSession, _mpv_processes, sockFile, engine,
                   enginePaused, process, sock, peer, rpc, attempts, mpvPath, failure>>

ControlCalls == {"play", "pause", "seek", "is_paused", "get_time_pos", "get_duration"}

UiControl ==
    \/ CallPlayPause("play")
    \/ CallPlayPause("pause")
    \/ Requery
    \/ \E seconds \in SeekSeconds : \E relative \in BOOLEAN : CallSeek(seconds, relative)
    \/ \E name \in {"pause", "time-pos", "duration"} : CallQuery(name)
    \/ \E op \in ControlCalls : CallNoSession(op)

\* Number of Player.start calls explored together with the control calls.
CtlSessions == 1

CtlNext ==
    \/ UiLife(CtlSessions)
    \/ UiControl
    \/ \E s \in Sessions : Worker(s)
    \/ \E e \in Sessions : Engines(e)

SpecCtl == Init /\ [][CtlNext]_vars

(***************************************************************************)
(* PlayerThread.get_property (player.py 306-324) on the bytes received.    *)
(*                                                                         *)
(* The bytes sock.recv(1024) returned are a sequence of messages, each the *)
(* text of one JSON value or something else:                               *)
(*   t = "object"  data = "absent", or the value of its "data" member      *)
(*   t = "string"  data = "present" iff the string contains  data          *)
(*   t = "array"   data = "present" iff "data" is one of its elements      *)
(*   t = "number" | "bool" | "null"                                        *)
(*   t = "blank"   white space only                                        *)
(*   t = "text"    text that is not JSON                                   *)
(*   t = "bytes"   bytes that are not UTF-8                                *)
(***************************************************************************)

\* Longest response explored, in messages.
MaxMessages == 2

DataValues == {"null", "true", "false", "num", "str"}

Messages ==
    [t : {"object"}, data : DataValues \cup {"absent"}]
    \cup [t : {"string", "array"}, data : {"present", "absent"}]
    \cup [t : {"number", "bool", "null", "blank", "text", "bytes"}, data : {"absent"}]

JsonTypes == {"object", "string", "array", "number", "bool", "null"}

RECURSIVE SeqsUpTo(_)
SeqsUpTo(n) ==
    IF n = 0 THEN {<<>>}
    ELSE LET shorter == SeqsUpTo(n - 1)
         IN  shorter \cup {Append(r, m) : r \in {x \in shorter : Len(x) = n - 1},
                                          m \in Messages}

Responses == SeqsUpTo(MaxMessages)

\* 319: response.decode() raises UnicodeDecodeError
Undecodable(r) == \E i \in 1..Len(r) : r[i].t = "bytes"

\* 319: json.loads(text): the text is one JSON value with white space around
\* it; anything else raises JSONDecodeError
IsNotBlank(m) == m.t # "blank"

NonBlank(r) == SelectSeq(r, IsNotBlank)

Loadable(r) == Len(NonBlank(r)) = 1 /\ NonBlank(r)[1].t \in JsonTypes

json_loads(r) == NonBlank(r)[1]

\* 320: "data" in data -- key of a dict, substring of a str, element of a
\* list; TypeError for a value that is not a container
InRaises(v) == v.t \in {"number", "bool", "null"}

InData(v) == v.data # "absent"

\* 321: data["data"] -- the member of a dict; TypeError for a str or a list
SubscriptRaises(v) == v.t # "object"

\* The Python value of a JSON value: null is None.
PyValue(d) == IF d = "null" THEN None ELSE Some(d)

\* 317-324
parse_response(r) ==
    IF r = <<>> THEN None                       \* 317: if response:
    ELSE IF Undecodable(r) THEN None            \* 322: UnicodeDecodeError
    ELSE IF ~Loadable(r) THEN None              \* 322: JSONDecodeError
    ELSE LET data == json_loads(r)
         IN  IF InRaises(data) THEN Raised      \* 320: TypeError, not caught
             ELSE IF ~InData(data) THEN None    \* 324
             ELSE IF SubscriptRaises(data) THEN Raised   \* 321: TypeError
             ELSE PyValue(data.data)            \* 321

PropInit ==
    /\ response \in Responses
    /\ gpPc = "call"
    /\ gpResult = None

GetPropertyReturns ==
    /\ gpPc = "call"
    /\ gpResult' = parse_response(response)
    /\ gpPc' = "returned"
    /\ UNCHANGED <<response, lifeVars, pctVars, snapVars, extVars>>

InitGetProperty == LifeInit /\ PropInit /\ PctIdle /\ SnapInit /\ ExtIdle

SpecGetProperty == InitGetProperty /\ [][GetPropertyReturns]_vars

(***************************************************************************)
(* The progress formula of the poller (interface.py 150-154) and of        *)
(* play_pause_toggle (interface.py 348-350).                               *)
(*                                                                         *)
(* Positions and durations are whole seconds; a quotient is kept exact, as *)
(* a pair <<numerator, denominator>> with a positive denominator.          *)
(***************************************************************************)

\* Largest position and duration explored, in seconds.
MaxSeconds == 3

Seconds == (0 - MaxSeconds)..MaxSeconds

Optional(S) == {None} \cup {Some(v) : v \in S}

Frac(n, d) == <<n, d>>

FracLess(a, b) == a[1] * b[2] < b[1] * a[2]

\* Python's max(a, b) and min(a, b): the first argument unless the second is
\* strictly greater (smaller).
PyMax(a, b) == IF FracLess(a, b) THEN b ELSE a

PyMin_unclamped(a, b) == a

PyMin(a, b) == IF FracLess(b, a) THEN b ELSE a

\* time_pos / duration * 100, duration # 0
Percent(tp, d) ==
    IF d > 0 THEN Frac(tp * 100, d) ELSE Frac(0 - tp * 100, 0 - d)

\* Truth value of an optional number: None and 0 are false.
Truthy(d) == d # None /\ d[1] # 0

\* 151-154, 348-350
progress_of(tp, d) ==
    IF Truthy(d) /\ d[1] > 0 /\ tp # None
    THEN PyMin(PyMax(Percent(tp[1], d[1]), Frac(0, 1)), Frac(100, 1))
    ELSE Frac(0, 1)

PctInit ==
    /\ pctPos \in Optional(Seconds)
    /\ pctDur \in Optional(Seconds)
    /\ pctPc = "input"
    /\ pctOut = Frac(0, 1)

\* interface.py 150-154
PollerComputes ==
    /\ pctPc = "input"
    /\ pctOut' = progress_of(pctPos, pctDur)
    /\ pctPc' = "poller"
    /\ UNCHANGED <<pctPos, pctDur, lifeVars, propVars, snapVars, extVars>>

\* interface.py 348-350
ToggleComputes ==
    /\ pctPc = "input"
    /\ pctOut' = (IF Truthy(pctDur) /\ pctDur[1] > 0 /\ pctPos # None
                  THEN progress_of(pctPos, pctDur)
                  ELSE Frac(0, 1))
    /\ pctPc' = "toggle"
    /\ UNCHANGED <<pctPos, pctDur, lifeVars, propVars, snapVars, extVars>>

PercentNext == PollerComputes \/ ToggleComputes

InitPercent == LifeInit /\ PropIdle /\ PctInit /\ SnapInit /\ ExtIdle

SpecPercent == InitPercent /\ [][PercentNext]_vars

(***************************************************************************)
(* The shared snapshot: the poller thread (Interface._update_progress_loop,*)
(* interface.py 140-168) and item_chosen on the UI thread (263-290).       *)
(*                                                                         *)
(* Every write of a snapshot field is a step of its own: the UI timer      *)
(* (_on_progress_update_alarm, 175-189) runs on another thread and reads   *)
(* the fields whenever it fires.  Player.stop and Player.start are single  *)
(* steps here; their own steps are those of the lifecycle above.           *)
(***************************************************************************)

\* Largest position and duration the engine answers, in seconds.
SnapSeconds == 2

PositionAnswers == Optional(0..SnapSeconds)

DurationAnswers == Optional(0..SnapSeconds)

PausedAnswers == Optional({"true", "false"})

\* Player.get_time_pos, get_duration, is_paused (player.py 505-533): None
\* without a playback, else what PlayerThread.get_property returns.
PlayerAnswers(answers) == IF playback # NoSession THEN answers ELSE {None}

\* 143-145: the tick, and the test  self.player and self.player.playback
PollWake ==
    /\ pollPc = "wait"
    /\ pollPc' = IF playback # NoSession THEN "q_pos" ELSE "n_pos"
    /\ UNCHANGED <<latest_time_pos, latest_duration, latest_is_paused,
                   latest_progress, time_pos, duration, is_paused, progress>>
    /\ UNCHANGED <<lifeVars, propVars, pctVars, extVars>>

\* 146
PollGetTimePos ==
    /\ pollPc = "q_pos"
    /\ time_pos' \in PlayerAnswers(PositionAnswers)
    /\ pollPc' = "q_dur"
    /\ UNCHANGED <<latest_time_pos, latest_duration, latest_is_paused,
                   latest_progress, duration, is_paused, progress>>
    /\ UNCHANGED <<lifeVars, propVars, pctVars, extVars>>

\* 147
PollGetDuration ==
    /\ pollPc = "q_dur"
    /\ duration' \in PlayerAnswers(DurationAnswers)
    /\ pollPc' = "q_paused"
    /\ UNCHANGED <<latest_time_pos, latest_duration, latest_is_paused,
                   latest_progress, time_pos, is_paused, progress>>
    /\ UNCHANGED <<lifeVars, propVars, pctVars, extVars>>

\* 148, 151-154
PollIsPaused ==
    /\ pollPc = "q_paused"
    /\ is_paused' \in PlayerAnswers(PausedAnswers)
    /\ progress' = progress_of(time_pos, duration)
    /\ pollPc' = "w_pos"
    /\ UNCHANGED <<latest_time_pos, latest_duration, latest_is_paused,
                   latest_progress, time_pos, duration>>
    /\ UNCHANGED <<lifeVars, propVars, pctVars, extVars>>

\* The tick is over: back to the wait of line 143; the locals are dead.
TickOver ==
    /\ pollPc' = "wait"
    /\ time_pos' = None
    /\ duration' = None
    /\ is_paused' = None
    /\ progress' = Frac(0, 1)

\* 146-148, 167-168: a query raises (player.py 320-321) and the tick is
\* abandoned.
PollQueryRaises ==
    /\ pollPc \in {"q_pos", "q_dur", "q_paused"}
    /\ playback # NoSession
    /\ TickOver
    /\ UNCHANGED <<latest_time_pos, latest_duration, latest_is_paused,
                   latest_progress>>
    /\ UNCHANGED <<lifeVars, propVars, pctVars, extVars>>

\* 157
PollWriteTimePos ==
    /\ pollPc = "w_pos"
    /\ latest_time_pos' = time_pos
    /\ pollPc' = "w_dur"
    /\ UNCHANGED <<latest_duration, latest_is_paused, latest_progress,
                   time_pos, duration, is_paused, progress>>
    /\ UNCHANGED <<lifeVars, propVars, pctVars, extVars>>

\* 158
PollWriteDuration ==
    /\ pollPc = "w_dur"
    /\ latest_duration' = duration
    /\ pollPc' = "w_paused"
    /\ UNCHANGED <<latest_time_pos, latest_is_paused, latest_progress,
                   time_pos, duration, is_paused, progress>>
    /\ UNCHANGED <<lifeVars, propVars, pctVars, extVars>>

\* 159
PollWriteIsPaused ==
    /\ pollPc = "w_paused"
    /\ latest_is_paused' = is_paused
    /\ pollPc' = "w_prog"
    /\ UNCHANGED <<latest_time_pos, latest_duration, latest_progress,
                   time_pos, duration, is_paused, progress>>
    /\ UNCHANGED <<lifeVars, propVars, pctVars, extVars>>

\* 160
PollWriteProgress ==
    /\ pollPc = "w_prog"
    /\ latest_progress' = progress
    /\ TickOver
    /\ UNCHANGED <<latest_time_pos, latest_duration, latest_is_paused>>
    /\ UNCHANGED <<lifeVars, propVars, pctVars, extVars>>

\* 163
PollClearTimePos ==
    /\ pollPc = "n_pos"
    /\ latest_time_pos' = None
    /\ pollPc' = "n_dur"
    /\ UNCHANGED <<latest_duration, latest_is_paused, latest_progress,
                   time_pos, duration, is_paused, progress>>
    /\ UNCHANGED <<lifeVars, propVars, pctVars, extVars>>

\* 164
PollClearDuration ==
    /\ pollPc = "n_dur"
    /\ latest_duration' = None
    /\ pollPc' = "n_paused"
    /\ UNCHANGED <<latest_time_pos, latest_is_paused, latest_progress,
                   time_pos, duration, is_paused, progress>>
    /\ UNCHANGED <<lifeVars, propVars, pctVars, extVars>>

\* 165
\* (a tick that leaves the paused flag of the last session in place)
PollClearIsPaused_kept ==
    /\ pollPc = "n_paused"
    /\ pollPc' = "n_prog"
    /\ UNCHANGED <<latest_time_pos, latest_duration, latest_is_paused,
                   latest_progress, time_pos, duration, is_paused, progress>>
    /\ UNCHANGED <<lifeVars, propVars, pctVars, extVars>>

PollClearIsPaused ==
    /\ pollPc = "n_paused"
    /\ latest_is_paused' = None
    /\ pollPc' = "n_prog"
    /\ UNCHANGED <<latest_time_pos, latest_duration, latest_progress,
                   time_pos, duration, is_paused, progress>>
    /\ UNCHANGED <<lifeVars, propVars, pctVars, extVars>>

\* 166
PollClearProgress ==
    /\ pollPc = "n_prog"
    /\ latest_progress' = Frac(0, 1)
    /\ TickOver
    /\ UNCHANGED <<latest_time_pos, latest_duration, latest_is_paused>>
    /\ UNCHANGED <<lifeVars, propVars, pctVars, extVars>>

Poller ==
    \/ PollWake
    \/ PollGetTimePos
    \/ PollGetDuration
    \/ PollIsPaused
    \/ PollQueryRaises
    \/ PollWriteTimePos
    \/ PollWriteDuration
    \/ PollWriteIsPaused
    \/ PollWriteProgress
    \/ PollClearTimePos
    \/ PollClearDuration
    \/ PollClearIsPaused
    \/ PollClearProgress

\* What item_chosen leaves alone besides the fields it names.
ItemChosenFrame ==
    UNCHANGED <<nextSession, _mpv_processes, sockFile, engine, enginePaused,
                process, sock, peer, rpc, attempts, mpvPath, failure, uiOp,
                lastCall, prevCall, lastQuery, propVars, pctVars, extVars, pollPc,
                time_pos, duration, is_paused, progress>>

\* 277-278: self.player.stop()
ItemChosenStop ==
    /\ uiPc = "idle"
    /\ playback' = NoSession
    /\ playing' = FALSE
    /\ uiPc' = "ic_pos"
    /\ UNCHANGED <<latest_time_pos, latest_duration, latest_is_paused,
                   latest_progress>>
    /\ ItemChosenFrame

\* 280
ItemChosenResetTimePos ==
    /\ uiPc = "ic_pos"
    /\ latest_time_pos' = None
    /\ uiPc' = "ic_dur"
    /\ UNCHANGED <<playback, playing, latest_duration, latest_is_paused,
                   latest_progress>>
    /\ ItemChosenFrame

\* 281
ItemChosenResetDuration ==
    /\ uiPc = "ic_dur"
    /\ latest_duration' = None
    /\ uiPc' = "ic_prog"
    /\ UNCHANGED <<playback, playing, latest_time_pos, latest_is_paused,
                   latest_progress>>
    /\ ItemChosenFrame

\* 282
ItemChosenResetProgress ==
    /\ uiPc = "ic_prog"
    /\ latest_progress' = Frac(0, 1)
    /\ uiPc' = "ic_start"
    /\ UNCHANGED <<playback, playing, latest_time_pos, latest_duration,
                   latest_is_paused>>
    /\ ItemChosenFrame

\* 285-287: the choice has a videoId, self.player.start(...)
ItemChosenStart ==
    /\ uiPc = "ic_start"
    /\ playback' = 1
    /\ playing' = TRUE
    /\ uiPc' = "idle"
    /\ UNCHANGED <<latest_time_pos, latest_duration, latest_is_paused,
                   latest_progress>>
    /\ ItemChosenFrame

\* 285-286: the choice has no videoId
ItemChosenNoVideo ==
    /\ uiPc = "ic_start"
    /\ uiPc' = "idle"
    /\ UNCHANGED <<playback, playing, latest_time_pos, latest_duration,
                   latest_is_paused, latest_progress>>
    /\ ItemChosenFrame

item_chosen ==
    \/ ItemChosenStop
    \/ ItemChosenResetTimePos
    \/ ItemChosenResetDuration
    \/ ItemChosenResetProgress
    \/ ItemChosenStart
    \/ ItemChosenNoVideo

SnapNext == Poller \/ item_chosen

SpecSnap == Init /\ [][SnapNext]_vars

(***************************************************************************)
(* PlayerThread.terminate (player.py 197-265) and Player.stop (472-481)    *)
(* taken on their own: one caller, calls made one after the other on the   *)
(* session T, every step of terminate free to fail with the exceptions its *)
(* library call can raise, each exception routed through the except        *)
(* clauses around it.                                                      *)
(***************************************************************************)

\* The session the calls are made on.
T == 1

\* Number of calls made in a row.
MaxCalls == 2

\* Python's exception classes, each with the classes it is an instance of.
Ancestors(exc) ==
    IF exc = "ProcessLookupError" THEN {"ProcessLookupError", "OSError", "Exception"}
    ELSE IF exc = "PermissionError" THEN {"PermissionError", "OSError", "Exception"}
    ELSE IF exc = "OSError" THEN {"OSError", "Exception"}
    ELSE IF exc = "TimeoutExpired" THEN {"TimeoutExpired", "Exception"}
    ELSE {}

\* except (classes): catches exc
Caught(classes, exc) == classes \cap Ancestors(exc) # {}

\* What a signalling call (os.getpgid + os.killpg, Popen.terminate,
\* Popen.kill, os.kill) can do: deliver the signal, or raise.
SignalOutcomes == {"ok", "ProcessLookupError", "PermissionError"}

\* What socket.shutdown / socket.close can do.
SocketOutcomes == {"ok", "OSError"}

\* The states a session can be in when terminate is called on it.
SessionStates ==
    {[process |-> FALSE, engine |-> "none", sock |-> "none", file |-> NoSession,
      rpc |-> "popen"]}
    \cup {[process |-> TRUE, engine |-> "running", sock |-> k, file |-> NoSession,
           rpc |-> IF k = "none" THEN "mksock" ELSE "connect"]
             : k \in {"none", "created"}}
    \cup {[process |-> TRUE, engine |-> e, sock |-> k, file |-> f,
           rpc |-> IF k = "none" THEN "mksock"
                   ELSE IF k = "created" THEN "connect" ELSE "done_ok"]
             : e \in {"listening", "dead"}, k \in {"none", "created", "connected"},
               f \in {NoSession, T}}

TermInit ==
    /\ \E st \in SessionStates :
          /\ process = [s \in Sessions |-> s = T /\ st.process]
          /\ engine = [s \in Sessions |-> IF s = T THEN st.engine ELSE "none"]
          /\ sock = [s \in Sessions |-> IF s = T THEN st.sock ELSE "none"]
          /\ peer = [s \in Sessions |->
                        IF s = T /\ st.sock = "connected" THEN T ELSE NoSession]
          /\ rpc = [s \in Sessions |-> IF s = T THEN st.rpc ELSE "unstarted"]
          /\ sockFile = st.file
          /\ _mpv_processes = IF st.process THEN {T} ELSE {}
    /\ playback \in {NoSession, T}
    /\ playing \in (IF playback = T THEN BOOLEAN ELSE {FALSE})
    /\ nextSession = 1
    /\ enginePaused = [s \in Sessions |-> FALSE]
    /\ attempts = [s \in Sessions |-> 0]
    /\ mpvPath = [s \in Sessions |-> IF s = T THEN "found" ELSE "unset"]
    /\ failure = [s \in Sessions |-> "none"]
    /\ uiPc = "idle"
    /\ uiOp = "none"
    /\ lastCall = "none"
    /\ prevCall = "none"
    /\ lastQuery = None
    /\ termPc = "idle"
    /\ termCalls = 0
    /\ termFaults = {}
    /\ unlinkFails \in BOOLEAN
    /\ unlinkTried = FALSE

\* What no step of these calls touches.
TermFrame ==
    UNCHANGED <<nextSession, enginePaused, rpc, attempts, mpvPath, failure, uiPc,
                prevCall, lastQuery, unlinkFails, propVars, pctVars, snapVars,
                exitVars, moreVars>>

\* 200: if self.sock:
AfterEnter == IF sock[T] # "none" THEN "shutdown" ELSE "proc"

CanCall == termPc \in {"idle", "returned"} /\ termCalls < MaxCalls

\* PlayerThread.terminate() called on the session
TerminateCall ==
    /\ CanCall
    /\ uiOp' = "terminate"
    /\ termPc' = AfterEnter
    /\ termFaults' = {}
    /\ unlinkTried' = FALSE
    /\ UNCHANGED <<playing, playback, _mpv_processes, sockFile, engine, process,
                   sock, peer, lastCall, termCalls>>
    /\ TermFrame

\* Player.stop(), 474-476: if self.playback: self.playback.terminate()
StopCall ==
    /\ CanCall
    /\ playback # NoSession
    /\ uiOp' = "stop"
    /\ termPc' = AfterEnter
    /\ termFaults' = {}
    /\ unlinkTried' = FALSE
    /\ UNCHANGED <<playing, playback, _mpv_processes, sockFile, engine, process,
                   sock, peer, lastCall, termCalls>>
    /\ TermFrame

\* Player.stop(), 474 with self.playback None: returns at once
StopNoSession ==
    /\ CanCall
    /\ playback = NoSession
    /\ uiOp' = "stop"
    /\ termPc' = "returned"
    /\ termCalls' = termCalls + 1
    /\ lastCall' = "stop"
    /\ termFaults' = {}
    /\ unlinkTried' = FALSE
    /\ UNCHANGED <<playing, playback, _mpv_processes, sockFile, engine, process,
                   sock, peer>>
    /\ TermFrame

\* 201-204: try: self.sock.shutdown(SHUT_RDWR) except (socket.error, OSError)
AfterShutdown(exc) ==
    IF exc = "ok" \/ Caught({"OSError"}, exc) THEN "close" ELSE "raised"

TermShutdown ==
    /\ termPc = "shutdown"
    /\ \E exc \in SocketOutcomes :
          /\ termPc' = AfterShutdown(exc)
          /\ termFaults' = IF exc = "ok" THEN termFaults
                                         ELSE termFaults \cup {"shutdown"}
    /\ UNCHANGED <<playing, playback, _mpv_processes, sockFile, engine, process,
                   sock, peer, uiOp, lastCall, termCalls, unlinkTried>>
    /\ TermFrame

\* 205-210: try: self.sock.close() except Exception ... finally: self.sock = None
AfterClose(exc) ==
    IF exc = "ok" \/ Caught({"Exception"}, exc) THEN "proc" ELSE "raised"

TermClose ==
    /\ termPc = "close"
    /\ \E exc \in SocketOutcomes :
          /\ termPc' = AfterClose(exc)
          /\ termFaults' = IF exc = "ok" THEN termFaults
                                         ELSE termFaults \cup {"close"}
    /\ terminate_sock(T)
    /\ UNCHANGED <<playing, playback, _mpv_processes, sockFile, engine, process,
                   uiOp, lastCall, termCalls, unlinkTried>>
    /\ TermFrame

\* 213-218: if self.process: ... _mpv_processes.discard(pid)
TermProc ==
    /\ termPc = "proc"
    /\ terminate_discard(T)
    /\ termPc' = IF terminate_has_process(T) THEN "poll" ELSE "unlink"
    /\ UNCHANGED <<playing, playback, sockFile, engine, process, sock, peer,
                   uiOp, lastCall, termCalls, termFaults, unlinkTried>>
    /\ TermFrame

\* 221: if self.process.poll() is None:
TermPoll ==
    /\ termPc = "poll"
    /\ termPc' = IF engine[T] \in Alive THEN "sigterm" ELSE "clear"
    /\ UNCHANGED <<playing, playback, _mpv_processes, sockFile, engine, process,
                   sock, peer, uiOp, lastCall, termCalls, termFaults, unlinkTried>>
    /\ TermFrame

\* 246-256: the clauses of the outer try:  except ProcessLookupError: pass;
\* except Exception: the last resort;  (finally runs in every case)
OuterRoute_lookupOnly(exc) ==
    IF Caught({"ProcessLookupError"}, exc) THEN "clear" ELSE "clear_raise"

OuterRoute(exc) ==
    IF Caught({"ProcessLookupError"}, exc) THEN "clear"
    ELSE IF Caught({"Exception"}, exc) THEN "lastresort"
    ELSE "clear_raise"

\* 227, 242: except (ProcessLookupError, OSError, AttributeError)
GroupCatch == {"ProcessLookupError", "OSError", "AttributeError"}

\* 224-231, 239-245: the group signal (outcome g), on its failure the signal
\* to the process itself (outcome t);  except ProcessLookupError: pass
SignalRoute(g, t, next) ==
    IF g = "ok" THEN next
    ELSE IF Caught(GroupCatch, g)
         THEN (IF t = "ok" \/ Caught({"ProcessLookupError"}, t) THEN next
               ELSE OuterRoute(t))
    ELSE IF Caught({"ProcessLookupError"}, g) THEN next
    ELSE OuterRoute(g)

Delivered(g, t) == g = "ok" \/ (Caught(GroupCatch, g) /\ t = "ok")

SignalFaults(g, t, group, single) ==
    (IF g # "ok" THEN {group} ELSE {})
    \cup (IF g # "ok" /\ Caught(GroupCatch, g) /\ t # "ok" THEN {single} ELSE {})

\* The two outcomes of one signalling step; the second call is made only
\* when the first raised.
SignalPairs == {<<g, t>> \in SignalOutcomes \X SignalOutcomes : g = "ok" => t = "ok"}

\* The engine receives a signal: SIGKILL ends it, SIGTERM ends it unless it
\* does not react within the wait that follows.
EngineSignalled(delivered, mayIgnore) ==
    IF delivered /\ engine[T] \in Alive
    THEN \E dies \in (IF mayIgnore THEN BOOLEAN ELSE {TRUE}) :
            IF dies THEN /\ engine' = [engine EXCEPT ![T] = "dead"]
                         /\ sockFile' \in FileAfterExit(T)
                    ELSE UNCHANGED <<engine, sockFile>>
    ELSE UNCHANGED <<engine, sockFile>>

\* 222-231: os.killpg(os.getpgid(pid), SIGTERM), else self.process.terminate()
TermSigterm ==
    /\ termPc = "sigterm"
    /\ \E p \in SignalPairs :
          /\ termPc' = SignalRoute(p[1], p[2], "wait")
          /\ termFaults' = termFaults \cup SignalFaults(p[1], p[2], "killpg", "terminate")
          /\ EngineSignalled(Delivered(p[1], p[2]), TRUE)
    /\ UNCHANGED <<playing, playback, _mpv_processes, process, sock, peer,
                   uiOp, lastCall, termCalls, unlinkTried>>
    /\ TermFrame

\* 234-236: try: self.process.wait(timeout=2) except subprocess.TimeoutExpired
AfterWait(exc) ==
    IF exc = "ok" THEN "clear"
    ELSE IF Caught({"TimeoutExpired"}, exc) THEN "sigkill"
    ELSE OuterRoute(exc)

TermWait ==
    /\ termPc = "wait"
    /\ LET exc == IF engine[T] \in Alive THEN "TimeoutExpired" ELSE "ok"
       IN  /\ termPc' = AfterWait(exc)
           /\ termFaults' = IF exc = "ok" THEN termFaults
                                          ELSE termFaults \cup {"wait"}
    /\ UNCHANGED <<playing, playback, _mpv_processes, sockFile, engine, process,
                   sock, peer, uiOp, lastCall, termCalls, unlinkTried>>
    /\ TermFrame

\* 238-245: os.killpg(os.getpgid(pid), SIGKILL), else self.process.kill()
TermSigkill ==
    /\ termPc = "sigkill"
    /\ \E p \in SignalPairs :
          /\ termPc' = SignalRoute(p[1], p[2], "clear")
          /\ termFaults' = termFaults \cup SignalFaults(p[1], p[2], "killpg9", "kill")
          /\ EngineSignalled(Delivered(p[1], p[2]), FALSE)
    /\ UNCHANGED <<playing, playback, _mpv_processes, process, sock, peer,
                   uiOp, lastCall, termCalls, unlinkTried>>
    /\ TermFrame

\* 251-256: try: os.kill(pid, SIGKILL) except (ProcessLookupError, OSError)
AfterLastResort(exc) ==
    IF exc = "ok" \/ Caught({"ProcessLookupError", "OSError"}, exc) THEN "clear"
    ELSE "clear_raise"

TermLastResort ==
    /\ termPc = "lastresort"
    /\ \E exc \in SignalOutcomes :
          /\ termPc' = AfterLastResort(exc)
          /\ termFaults' = IF exc = "ok" THEN termFaults
                                         ELSE termFaults \cup {"os.kill"}
          /\ EngineSignalled(exc = "ok", FALSE)
    /\ UNCHANGED <<playing, playback, _mpv_processes, process, sock, peer,
                   uiOp, lastCall, termCalls, unlinkTried>>
    /\ TermFrame

\* 257-258: finally: self.process = None
ProcessAfterTerminate_kept(p) == p

ProcessAfterTerminate(p) == FALSE

TermClear ==
    /\ termPc \in {"clear", "clear_raise"}
    /\ process' = [process EXCEPT ![T] = ProcessAfterTerminate(@)]
    /\ termPc' = IF termPc = "clear" THEN "unlink" ELSE "raised"
    /\ UNCHANGED <<playing, playback, _mpv_processes, sockFile, engine, sock, peer,
                   uiOp, lastCall, termCalls, termFaults, unlinkTried>>
    /\ TermFrame

\* 261-265: try: if os.path.exists(...): os.unlink(...) except OSError: pass
AfterUnlink(exc) ==
    IF exc = "ok" \/ Caught({"OSError"}, exc)
    THEN (IF uiOp = "stop" THEN "finally" ELSE "returned")
    ELSE "raised"

TermUnlink ==
    /\ termPc = "unlink"
    /\ unlinkTried' = TRUE
    /\ LET exc == IF sockFile # NoSession /\ unlinkFails THEN "OSError" ELSE "ok"
       IN  /\ termPc' = AfterUnlink(exc)
           /\ termFaults' = IF exc = "ok" THEN termFaults
                                          ELSE termFaults \cup {"unlink"}
           /\ sockFile' = IF exc = "ok" THEN NoSession ELSE sockFile
    /\ termCalls' = IF termPc' = "returned" THEN termCalls + 1 ELSE termCalls
    /\ lastCall' = IF termPc' = "returned" THEN uiOp ELSE lastCall
    /\ UNCHANGED <<playing, playback, _mpv_processes, engine, process, sock, peer,
                   uiOp>>
    /\ TermFrame

\* 479-481: finally: self.playback = None; self.playing = False
StopFinally ==
    /\ termPc = "finally"
    /\ playback' = NoSession
    /\ playing' = FALSE
    /\ termPc' = "returned"
    /\ termCalls' = termCalls + 1
    /\ lastCall' = "stop"
    /\ UNCHANGED <<_mpv_processes, sockFile, engine, process, sock, peer,
                   uiOp, termFaults, unlinkTried>>
    /\ TermFrame

TermNext ==
    \/ TerminateCall
    \/ StopCall
    \/ StopNoSession
    \/ TermShutdown
    \/ TermClose
    \/ TermProc
    \/ TermPoll
    \/ TermSigterm
    \/ TermWait
    \/ TermSigkill
    \/ TermLastResort
    \/ TermClear
    \/ TermUnlink
    \/ StopFinally

InitTerminate == TermInit /\ PropIdle /\ PctIdle /\ SnapInit /\ ExitIdle /\ MoreIdle

SpecTerminate == InitTerminate /\ [][TermNext]_vars

(***************************************************************************)
(* The exit of the application.  However the main loop ends (return,       *)
(* uncaught exception, or the SIGINT/SIGTERM handler of interface.py 92-96 *)
(* which calls sys.exit), Interface._cleanup runs (interface.py 88-90,     *)
(* 95), then the interpreter runs the atexit hooks registered at player.py *)
(* 92-93, last registered first: _cleanup_orphaned_mpv, then               *)
(* _cleanup_mpv_processes.  The workers are daemon threads: they run on    *)
(* until the hooks are over.                                               *)
(***************************************************************************)

\* Number of Player.start calls explored before the exit.
ExitSessions == 1

ExitFrame ==
    UNCHANGED <<nextSession, enginePaused, process, sock, peer, rpc, attempts,
                mpvPath, failure, lastCall, prevCall, lastQuery,
                propVars, pctVars, snapVars, termVars, moreVars>>

\* Engine s is gone and reaped (Popen.poll of player.py 281, or the collection
\* of the Popen object), and the system gives its pid to an unrelated
\* process, whose command line may happen to contain "mpv".
PidRecycled(s) ==
    /\ engine[s] = "dead"
    /\ recycled[s] = "no"
    /\ \E owner \in {"other", "other_mpv"} : recycled' = [recycled EXCEPT ![s] = owner]
    /\ UNCHANGED <<playing, playback, _mpv_processes, sockFile, engine, uiPc, uiOp,
                   PSUTIL_AVAILABLE, trackedAtExit, forceKilled, strangers>>
    /\ ExitFrame

\* Interface._cleanup (interface.py 98-109) -> Player.cleanup (player.py
\* 548-553) -> Player.stop: enter terminate, or nothing to stop
InterfaceCleanup ==
    /\ uiPc = "idle"
    /\ uiOp' = "cleanup"
    /\ uiPc' = IF playback # NoSession THEN "t_sock" ELSE "hook_probe"
    /\ UNCHANGED <<playing, playback, _mpv_processes, sockFile, engine, exitVars>>
    /\ ExitFrame

\* player.py 479-481 at the end of that stop; the application then exits
CleanupStopped ==
    /\ uiPc = "stopped"
    /\ uiOp = "cleanup"
    /\ playback' = NoSession
    /\ playing' = FALSE
    /\ uiPc' = "hook_probe"
    /\ UNCHANGED <<_mpv_processes, sockFile, engine, uiOp, exitVars>>
    /\ ExitFrame

\* atexit, first hook run: _cleanup_orphaned_mpv (registered at line 93)
HookOrphaned ==
    /\ uiPc = "hook_probe"
    /\ sockFile' = cleanup_orphaned_mpv
    /\ uiPc' = "hook_kill"
    /\ UNCHANGED <<playing, playback, _mpv_processes, engine, uiOp, exitVars>>
    /\ ExitFrame

\* What a tracked pid belongs to when the hook looks at it.
Owner(pid) ==
    IF recycled[pid] # "no" THEN recycled[pid]
    ELSE IF engine[pid] \in Alive THEN "engine"
    ELSE "gone"

\* 42-43: 'mpv' in ' '.join(process.cmdline()).lower()
CmdlineHasMpv(owner) == owner \in {"engine", "other_mpv"}

\* 38-65: the hook sends SIGTERM to the pid --
\*   with psutil (40-45): the process exists, runs, and its command line
\*   contains 'mpv';  without (56): the process exists
HookSignals(pid) ==
    IF PSUTIL_AVAILABLE THEN Owner(pid) # "gone" /\ CmdlineHasMpv(Owner(pid))
                        ELSE Owner(pid) # "gone"

\* 46-50, 57-61: a signalled process that ignores SIGTERM is force-killed
HookEnds_gracefulOnly(ignores) == ~ignores

HookEnds(ignores) == TRUE

\* atexit, second hook run: _cleanup_mpv_processes (registered at line 92),
\* the whole loop under _process_lock, then _mpv_processes.clear()
HookProcesses ==
    /\ uiPc = "hook_kill"
    /\ \E ignoring \in SUBSET {e \in _mpv_processes : Owner(e) = "engine"} :
         LET ended == {e \in _mpv_processes :
                          /\ Owner(e) = "engine"
                          /\ HookSignals(e)
                          /\ HookEnds(e \in ignoring)}
         IN  /\ engine' = [e \in Sessions |-> IF e \in ended THEN "dead" ELSE engine[e]]
             /\ sockFile' \in (IF sockFile \in ended \ ignoring
                               THEN {NoSession, sockFile} ELSE {sockFile})
             /\ forceKilled' = ended \cap ignoring
    /\ strangers' = {e \in _mpv_processes :
                        Owner(e) \in {"other", "other_mpv"} /\ HookSignals(e)}
    /\ trackedAtExit' = _mpv_processes
    /\ _mpv_processes' = {}
    /\ uiPc' = "exited"
    /\ UNCHANGED <<playing, playback, uiOp, PSUTIL_AVAILABLE, recycled>>
    /\ ExitFrame

ExitInit ==
    /\ PSUTIL_AVAILABLE \in BOOLEAN
    /\ recycled = [s \in Sessions |-> "no"]
    /\ trackedAtExit = {}
    /\ forceKilled = {}
    /\ strangers = {}

InitExit == LifeInit /\ PropIdle /\ PctIdle /\ SnapInit /\ TermIdle /\ ExitInit /\ MoreIdle

\* run() is the target of a daemon thread (player.py 105, 469): it takes steps
\* while the application runs and during the hooks, none once the
\* interpreter is gone.
DaemonWorker(s) == uiPc # "exited" /\ Worker(s)

ExitNext ==
    \/ UiLife(ExitSessions)
    \/ \E s \in Sessions : DaemonWorker(s)
    \/ \E e \in Sessions : Engines(e)
    \/ \E s \in Sessions : PidRecycled(s)
    \/ InterfaceCleanup
    \/ CleanupStopped
    \/ HookOrphaned
    \/ HookProcesses

SpecExit == InitExit /\ [][ExitNext]_vars

(***************************************************************************)
(* One session's control channel taken on its own: the socket set-up of    *)
(* PlayerThread.run (player.py 164-175) and the exchange of send_command   *)
(* (267-296), called by the poller thread or by the UI thread.             *)
(***************************************************************************)

\* Number of send_command calls explored.
MaxSends == 2

\* socket.settimeout: None is a blocking socket, recv waits without limit
ConnectTimeout == Some("5.0")

\* 174: self.sock.settimeout(None)  # Remove timeout after connection
TimeoutAfterConnect == None

Callers == {"poller", "ui"}

\* what each thread sends: the poller only queries (interface.py 146-148),
\* the UI thread plays, pauses, seeks and queries (336-351, 319-326)
CommandsOf(c) ==
    IF c = "poller" THEN {"get_property"}
    ELSE {"set_property", "seek", "get_property"}

SendInit ==
    /\ connPc = "new"
    /\ sock_timeout = None
    /\ sndEngine \in {"answers", "wedged"}
    /\ sndPc = "idle"
    /\ sndCaller = "ui"
    /\ sndCmd = "get_property"
    /\ pending = FALSE
    /\ inbox = FALSE
    /\ sndOut = None
    /\ sndCalls = 0

SendFrame ==
    UNCHANGED <<lifeVars, propVars, pctVars, snapVars, termVars, exitVars, shutVars,
                wireVars, searchVars, pairVars, sigVars,
                keyVars>>

\* 165-166: socket.socket(AF_UNIX, SOCK_STREAM); settimeout(5.0)
ChannelSocket ==
    /\ connPc = "new"
    /\ connPc' = "made"
    /\ sock_timeout' = ConnectTimeout
    /\ UNCHANGED <<sndEngine, sndPc, sndCaller, sndCmd, pending, inbox, sndOut, sndCalls>>
    /\ SendFrame

\* 173-175: connect succeeds; settimeout(None); break
ChannelConnect ==
    /\ connPc = "made"
    /\ sndEngine # "dead"
    /\ connPc' = "connected"
    /\ sock_timeout' = TimeoutAfterConnect
    /\ UNCHANGED <<sndEngine, sndPc, sndCaller, sndCmd, pending, inbox, sndOut, sndCalls>>
    /\ SendFrame

\* the engine stops reading and writing its IPC socket, or exits
EngineWedges ==
    /\ sndEngine = "answers"
    /\ sndEngine' = "wedged"
    /\ UNCHANGED <<connPc, sock_timeout, sndPc, sndCaller, sndCmd, pending, inbox, sndOut, sndCalls>>
    /\ SendFrame

EngineDies ==
    /\ sndEngine \in {"answers", "wedged"}
    /\ sndEngine' = "dead"
    /\ UNCHANGED <<connPc, sock_timeout, sndPc, sndCaller, sndCmd, pending, inbox, sndOut, sndCalls>>
    /\ SendFrame

\* the engine answers the request it received
EngineAnswers ==
    /\ sndEngine = "answers"
    /\ pending
    /\ pending' = FALSE
    /\ inbox' = TRUE
    /\ UNCHANGED <<connPc, sock_timeout, sndEngine, sndPc, sndCaller, sndCmd, sndOut, sndCalls>>
    /\ SendFrame

\* 276-283: no socket object -> None; own process exited -> None
SendCommand(c, cmd) ==
    /\ sndPc = "idle"
    /\ sndCalls < MaxSends
    /\ sndCaller' = c
    /\ sndCmd' = cmd
    /\ IF connPc = "new" \/ sndEngine = "dead"
       THEN sndPc' = "returned" /\ sndOut' = None
       ELSE sndPc' = "sendall" /\ UNCHANGED sndOut
    /\ UNCHANGED <<connPc, sock_timeout, sndEngine, pending, inbox, sndCalls>>
    /\ SendFrame

\* 287: self.sock.sendall(...); a socket that is not connected, or whose peer
\* is gone, raises OSError / BrokenPipeError -> 291-293 -> None
SendAll ==
    /\ sndPc = "sendall"
    /\ IF connPc = "connected" /\ sndEngine # "dead"
       THEN sndPc' = "recv" /\ pending' = TRUE /\ UNCHANGED sndOut
       ELSE sndPc' = "returned" /\ sndOut' = None /\ UNCHANGED pending
    /\ UNCHANGED <<connPc, sock_timeout, sndEngine, sndCaller, sndCmd, inbox, sndCalls>>
    /\ SendFrame

\* 290: return self.sock.recv(1024) -- bytes have arrived
RecvData ==
    /\ sndPc = "recv"
    /\ inbox
    /\ inbox' = FALSE
    /\ sndPc' = "returned"
    /\ sndOut' = Some("response")
    /\ UNCHANGED <<connPc, sock_timeout, sndEngine, sndCaller, sndCmd, pending, sndCalls>>
    /\ SendFrame

\* 290: the peer closed its end (engine exited), or another thread's
\* terminate shut the socket down (202): recv returns b''
RecvEOF ==
    /\ sndPc = "recv"
    /\ ~inbox
    /\ sndEngine = "dead" \/ connPc = "shutdown"
    /\ sndPc' = "returned"
    /\ sndOut' = Some("empty")
    /\ UNCHANGED <<connPc, sock_timeout, sndEngine, sndCaller, sndCmd, pending, inbox, sndCalls>>
    /\ SendFrame

\* 290-293: recv raises an OSError -> None: the socket's timeout expires
\* (socket.timeout; a blocking socket, timeout None, never does), or the
\* engine went away with the request unread (ConnectionResetError)
RecvRaises ==
    /\ sndPc = "recv"
    /\ sock_timeout # None \/ (sndEngine = "dead" /\ pending)
    /\ sndPc' = "returned"
    /\ sndOut' = None
    /\ UNCHANGED <<connPc, sock_timeout, sndEngine, sndCaller, sndCmd, pending, inbox, sndCalls>>
    /\ SendFrame

\* the call is over
SendReturns ==
    /\ sndPc = "returned"
    /\ sndPc' = "idle"
    /\ sndCalls' = sndCalls + 1
    /\ UNCHANGED <<connPc, sock_timeout, sndEngine, sndCaller, sndCmd, pending, inbox, sndOut>>
    /\ SendFrame

\* 200-204: the user stops the session while the poller is inside its call
\* (the UI thread, when it is the caller, cannot: it is inside the call)
UiShutsDown ==
    /\ connPc = "connected"
    /\ sndPc # "idle" => sndCaller = "poller"
    /\ connPc' = "shutdown"
    /\ UNCHANGED <<sock_timeout, sndEngine, sndPc, sndCaller, sndCmd, pending, inbox, sndOut, sndCalls>>
    /\ SendFrame

\* the steps of the calling thread, and the expiry of the socket's timeout
CallerSteps == SendAll \/ RecvData \/ RecvEOF \/ RecvRaises \/ SendReturns

SendNext ==
    \/ ChannelSocket
    \/ ChannelConnect
    \/ EngineWedges
    \/ EngineDies
    \/ EngineAnswers
    \/ \E c \in Callers : \E cmd \in CommandsOf(c) : SendCommand(c, cmd)
    \/ SendAll
    \/ RecvData
    \/ RecvEOF
    \/ RecvRaises
    \/ SendReturns
    \/ UiShutsDown

InitSend == LifeInit /\ PropIdle /\ PctIdle /\ SnapInit /\ TermIdle /\ ExitIdle /\ SendInit /\ ShutIdle /\ WireIdle /\ SearchIdle /\ PairIdle /\ SigIdle /\ KeyIdle

\* The calling thread keeps running and a timeout that is set expires; the
\* engine and the user owe nothing.
SpecSend == InitSend /\ [][SendNext]_vars /\ WF_vars(CallerSteps)

(***************************************************************************)
(* Shutdown: the poller thread _update_progress_loop (interface.py         *)
(* 140-168), each of its queries taken through Player.get_* (player.py     *)
(* 505-533) and send_command (267-296), against Interface._cleanup         *)
(* (98-109): set the event, join for at most one second, Player.cleanup.   *)
(***************************************************************************)

\* Number of Player.start calls explored before the shutdown.
ShutSessions == 1

\* get_time_pos, get_duration, is_paused: interface.py 146-148
QueriesPerTick == 3

ShutFrame ==
    UNCHANGED <<propVars, pctVars, snapVars, termVars, exitVars, sendVars, wireVars,
                searchVars, pairVars, sigVars,
                keyVars>>

LoopFrame ==
    /\ UNCHANGED lifeVars
    /\ ShutFrame

\* 143: while not self.update_event.wait(0.5) -- the event is set: the loop
\* is over;  145: the half second has passed, 'if self.player and
\* self.player.playback': query, or 162-166 and wait again
LoopWait ==
    /\ loopPc = "wait"
    /\ loopPc' = IF update_event THEN "exited"
                 ELSE IF playback # NoSession THEN "query" ELSE "wait"
    /\ loopQueries' = 0
    /\ UNCHANGED <<update_event, loopSession, blockedAtSet>>
    /\ LoopFrame

\* after a query of the tick: the next one, or the writes of 157-160
AfterQuery == IF loopQueries + 1 = QueriesPerTick THEN "write" ELSE "query"

\* Player.get_time_pos / get_duration / is_paused: 'if self.playback:
\* return self.playback.get_...()', else None
LoopQuery ==
    /\ loopPc = "query"
    /\ IF playback # NoSession
       THEN /\ loopSession' = playback
            /\ loopPc' = "send"
            /\ UNCHANGED loopQueries
       ELSE /\ loopPc' = AfterQuery
            /\ loopQueries' = loopQueries + 1
            /\ UNCHANGED loopSession
    /\ UNCHANGED <<update_event, blockedAtSet>>
    /\ LoopFrame

\* send_command 276-287 on the session picked: no socket -> None; own process
\* exited -> None; sendall on a socket that is not connected or whose peer is
\* gone raises -> None; else the request is sent and the thread is in recv
LoopSend ==
    /\ loopPc = "send"
    /\ IF Reachable(loopSession)
       THEN /\ loopPc' = "recv"
            /\ UNCHANGED loopQueries
       ELSE /\ loopPc' = AfterQuery
            /\ loopQueries' = loopQueries + 1
    /\ UNCHANGED <<update_event, loopSession, blockedAtSet>>
    /\ LoopFrame

\* the socket of session s is still connected to a live engine
Connected(s) ==
    IF sock[s] = "connected" /\ peer[s] # NoSession
    THEN engine[peer[s]] \in Alive ELSE FALSE

\* 290: the engine answers
LoopRecvAnswer ==
    /\ loopPc = "recv"
    /\ Connected(loopSession)
    /\ loopPc' = AfterQuery
    /\ loopQueries' = loopQueries + 1
    /\ UNCHANGED <<update_event, loopSession, blockedAtSet>>
    /\ LoopFrame

\* 290: recv returns b'' or raises: the engine is gone, or terminate has shut
\* the socket down (202)
LoopRecvWoken ==
    /\ loopPc = "recv"
    /\ ~Connected(loopSession)
    /\ loopPc' = AfterQuery
    /\ loopQueries' = loopQueries + 1
    /\ UNCHANGED <<update_event, loopSession, blockedAtSet>>
    /\ LoopFrame

\* 167-168: except Exception as e: logger.debug(...) -- the loop goes on
\* with the wait of 143
\* (an exception that ends the thread)
AfterTickRaises_uncaught == "exited"

AfterTickRaises == "wait"

\* 290, player.py 319-321: the engine's answer decodes to a value that
\* '"data" in data' cannot search; get_property raises TypeError, the
\* accessor and the tick pass it on, and the tick is abandoned
LoopRaises ==
    /\ loopPc = "recv"
    /\ Connected(loopSession)
    /\ loopPc' = AfterTickRaises
    /\ UNCHANGED <<update_event, loopSession, loopQueries, blockedAtSet>>
    /\ LoopFrame

\* 150-160: compute and store the tick's values
LoopWrite ==
    /\ loopPc = "write"
    /\ loopPc' = "wait"
    /\ UNCHANGED <<update_event, loopSession, loopQueries, blockedAtSet>>
    /\ LoopFrame

CleanupFrame ==
    /\ UNCHANGED <<playing, playback, nextSession, _mpv_processes, sockFile, engine,
                   enginePaused, process, sock, peer, rpc, attempts, mpvPath, failure,
                   lastCall, prevCall, lastQuery>>
    /\ ShutFrame

\* 102-103: self.update_event.set()
CleanupSet ==
    /\ uiPc = "idle"
    /\ ~update_event
    /\ update_event' = TRUE
    /\ blockedAtSet' = (loopPc = "recv")
    /\ uiOp' = "cleanup"
    /\ uiPc' = "join"
    /\ UNCHANGED <<loopPc, loopSession, loopQueries>>
    /\ CleanupFrame

\* 104-105: is_alive() false, or join(timeout=1) returns: the thread is over
\* or the second has passed;  106-107: self.player.cleanup() -> stop
\* (a join without the timeout returns only when the thread is over)
JoinReturns_untimed(over) == over

JoinReturns(over) == TRUE

CleanupJoin ==
    /\ uiPc = "join"
    /\ JoinReturns(loopPc = "exited")
    /\ uiPc' = IF playback # NoSession THEN "t_sock" ELSE "hook_probe"
    /\ UNCHANGED <<uiOp, update_event, loopPc, loopSession, loopQueries, blockedAtSet>>
    /\ CleanupFrame

Loop == LoopWait \/ LoopQuery \/ LoopSend \/ LoopRecvWoken \/ LoopWrite

Cleanup ==
    \/ CleanupJoin
    \/ UiTermSock
    \/ UiTermDiscard
    \/ UiTermKill
    \/ UiTermUnlink
    \/ CleanupStopped

ShutNext ==
    \/ UiLife(ShutSessions)
    \/ \E s \in Sessions : Worker(s)
    \/ \E e \in Sessions : Engines(e)
    \/ LoopWait
    \/ LoopQuery
    \/ LoopSend
    \/ LoopRecvAnswer
    \/ LoopRecvWoken
    \/ LoopRaises
    \/ LoopWrite
    \/ CleanupSet
    \/ CleanupJoin
    \/ CleanupStopped

\* The poller thread and the main thread keep running; a wedged engine never
\* answers, and nobody owes a start, a stop or the exit.
SpecShutdown == Init /\ [][ShutNext]_vars /\ WF_vars(Loop) /\ WF_vars(Cleanup)

(***************************************************************************)
(* Player.search (player.py 383-399), run in its own thread by             *)
(* Interface.handle_search with search_thread_callback as the callback     *)
(* (interface.py 353-406).                                                 *)
(***************************************************************************)

\* Longest query explored, and number of searches.
MaxQuery == 3

MaxSearches == 2

\* Number of Player.start calls explored together with the searches.
SearchSessions == 1

\* The characters of a query: a blank and a letter.
QueryChars == {" ", "a"}

RECURSIVE Queries(_)
Queries(n) ==
    IF n = 0 THEN {<<>>}
    ELSE LET shorter == Queries(n - 1)
         IN  shorter \cup {Append(q, c) : q \in {x \in shorter : Len(x) = n - 1},
                                          c \in QueryChars}

\* str.strip(): without the leading and the trailing whitespace
RECURSIVE lstrip(_)
lstrip(q) == IF q # <<>> /\ Head(q) = " " THEN lstrip(Tail(q)) ELSE q

RECURSIVE rstrip(_)
rstrip(q) ==
    IF q # <<>> /\ q[Len(q)] = " " THEN rstrip(SubSeq(q, 1, Len(q) - 1)) ELSE q

strip(q) == rstrip(lstrip(q))

\* 390: if not query or not query.strip()
\* (a guard that only tests for the empty string)
Rejected_emptyOnly(q) == q = <<>>

Rejected(q) == q = <<>> \/ strip(q) = <<>>

SearchFrame ==
    UNCHANGED <<lifeVars, propVars, pctVars, snapVars, termVars, exitVars, sendVars,
                shutVars, wireVars, pairVars, sigVars,
                keyVars>>

\* 390-392 / 394-395: the guard; callback([]) and return, or call the API
SearchCall(q) ==
    /\ searchPc = "idle"
    /\ searches < MaxSearches
    /\ query' = q
    /\ apiQuery' = None
    /\ apiOutcome' = "none"
    /\ callbackCalls' = 0
    /\ callbackArgs' = <<>>
    /\ IF Rejected(q)
       THEN searchPc' = "callback" /\ cbArg' = "empty" /\ cbFrom' = "guard"
       ELSE searchPc' = "api" /\ cbArg' = "none" /\ cbFrom' = "none"
    /\ UNCHANGED searches
    /\ SearchFrame

\* 395-396: results = self.ytmusic.search(query=query.strip(), filter='songs')
\* returns (a list, possibly empty); callback(results) is next
ApiReturns ==
    /\ searchPc = "api"
    /\ apiQuery' = Some(strip(query))
    /\ apiOutcome' = "returned"
    /\ \E results \in {"results", "empty"} : cbArg' = results
    /\ cbFrom' = "try"
    /\ searchPc' = "callback"
    /\ UNCHANGED <<query, callbackCalls, callbackArgs, searches>>
    /\ SearchFrame

\* 395, 397-399: the API raises; logged; callback([]) is next
ApiRaises ==
    /\ searchPc = "api"
    /\ apiQuery' = Some(strip(query))
    /\ apiOutcome' = "raised"
    /\ cbArg' = "empty"
    /\ cbFrom' = "except"
    /\ searchPc' = "callback"
    /\ UNCHANGED <<query, callbackCalls, callbackArgs, searches>>
    /\ SearchFrame

\* search_thread_callback (interface.py 366-406): its whole body is inside
\* try / except Exception (372, 403-406), so a fault while the results are
\* displayed is logged and the callback returns
\* (a callback without that handler)
CallbackOutcome_unguarded(fault) == IF fault THEN "raises" ELSE "returns"

CallbackOutcome(fault) == "returns"

\* 391, 396, 399: callback(...) is invoked.  A callback that raises at 396 is
\* caught by 397 and 399 invokes it again; one that raises at 391 or 399
\* leaves search.
CallbackRuns ==
    /\ searchPc = "callback"
    /\ callbackCalls' = callbackCalls + 1
    /\ callbackArgs' = Append(callbackArgs, cbArg)
    /\ \E fault \in BOOLEAN :
          IF CallbackOutcome(fault) = "returns"
          THEN searchPc' = "returned" /\ UNCHANGED <<cbArg, cbFrom>>
          ELSE IF cbFrom = "try"
          THEN searchPc' = "callback" /\ cbArg' = "empty" /\ cbFrom' = "except"
          ELSE searchPc' = "raised" /\ UNCHANGED <<cbArg, cbFrom>>
    /\ UNCHANGED <<query, apiQuery, apiOutcome, searches>>
    /\ SearchFrame

\* search returns (392, or the end of 394-399) and the thread is over
SearchReturns ==
    /\ searchPc = "returned"
    /\ searchPc' = "idle"
    /\ searches' = searches + 1
    /\ UNCHANGED <<query, apiQuery, apiOutcome, cbArg, cbFrom, callbackCalls, callbackArgs>>
    /\ SearchFrame

SearchNext ==
    \/ UiLife(SearchSessions)
    \/ \E s \in Sessions : Worker(s)
    \/ \E e \in Sessions : Engines(e)
    \/ \E q \in Queries(MaxQuery) : SearchCall(q)
    \/ ApiReturns
    \/ ApiRaises
    \/ CallbackRuns
    \/ SearchReturns

SpecSearch == Init /\ [][SearchNext]_vars

(***************************************************************************)
(* Two threads on one socket.  The poller (interface.py 146-148) and the   *)
(* UI thread (336-351, 319-326) both reach PlayerThread.send_command       *)
(* (player.py 267-296) on the session's one socket; send_command takes no  *)
(* lock, writes its request (287) and returns whatever recv(1024) yields   *)
(* next (290).  The engine answers the requests in the order it reads them *)
(* and also writes event messages nobody asked for.                        *)
(***************************************************************************)

\* Requests made in one run.
MaxRequests == 3

\* Event messages the engine emits in one run.
MaxEvents == 1

\* A session that is playing: started, engine listening, socket connected.
PairLife ==
    /\ playing = TRUE
    /\ playback = T
    /\ nextSession = T
    /\ _mpv_processes = {T}
    /\ sockFile = T
    /\ engine = [s \in Sessions |-> IF s = T THEN "listening" ELSE "none"]
    /\ enginePaused = [s \in Sessions |-> FALSE]
    /\ process = [s \in Sessions |-> s = T]
    /\ sock = [s \in Sessions |-> IF s = T THEN "connected" ELSE "none"]
    /\ peer = [s \in Sessions |-> IF s = T THEN T ELSE NoSession]
    /\ rpc = [s \in Sessions |-> IF s = T THEN "done_ok" ELSE "unstarted"]
    /\ attempts = [s \in Sessions |-> IF s = T THEN 1 ELSE 0]
    /\ mpvPath = [s \in Sessions |-> IF s = T THEN "found" ELSE "unset"]
    /\ failure = [s \in Sessions |-> "none"]
    /\ uiPc = "idle"
    /\ uiOp = "none"
    /\ lastCall = "start"
    /\ prevCall = "none"
    /\ lastQuery = None

PairFrame ==
    UNCHANGED <<lifeVars, propVars, pctVars, snapVars, termVars, exitVars, sendVars,
                shutVars, wireVars, searchVars, sigVars,
                keyVars>>

\* 276-287: the socket is there and the process alive: sendall(request)
PairSend(c, cmd) ==
    /\ pairPc[c] \in {"idle", "returned"}
    /\ requests < MaxRequests
    /\ Reachable(playback)
    /\ requests' = requests + 1
    /\ asked' = [asked EXCEPT ![c] = <<cmd, requests + 1>>]
    /\ toEngine' = Append(toEngine, <<cmd, requests + 1>>)
    /\ received' = [received EXCEPT ![c] = None]
    /\ pairPc' = [pairPc EXCEPT ![c] = "recv"]
    /\ UNCHANGED <<fromEngine, events>>
    /\ PairFrame

\* mpv reads the next request and writes its reply
MpvReplies ==
    /\ toEngine # <<>>
    /\ toEngine' = Tail(toEngine)
    /\ fromEngine' = Append(fromEngine, <<"reply", Head(toEngine)[1], Head(toEngine)[2]>>)
    /\ UNCHANGED <<pairPc, asked, received, requests, events>>
    /\ PairFrame

\* mpv writes an event message ({"event": ...}) to every client
MpvEvent ==
    /\ events < MaxEvents
    /\ events' = events + 1
    /\ fromEngine' = Append(fromEngine, <<"event", "none", 0>>)
    /\ UNCHANGED <<pairPc, asked, received, requests, toEngine>>
    /\ PairFrame

\* get_property 317-324 on the bytes recv returned: one message that is a
\* reply carrying "data" gives that data (here: the request it answers);
\* an event or a reply without data gives None; several messages at once do
\* not parse (JSONDecodeError, 322) and give None
DataOf(msgs) ==
    IF Len(msgs) = 1 /\ msgs[1][1] = "reply" /\ msgs[1][2] = "get_property"
    THEN Some(msgs[1][3])
    ELSE None

\* 290: return self.sock.recv(1024) -- the bytes that have arrived, whoever
\* they were meant for;  play, pause and seek drop them (300, 304, 359)
PairRecv(c, k) ==
    /\ pairPc[c] = "recv"
    /\ k \in 1..Len(fromEngine)
    /\ fromEngine' = SubSeq(fromEngine, k + 1, Len(fromEngine))
    /\ received' = [received EXCEPT ![c] =
                       IF asked[c][1] = "get_property"
                       THEN DataOf(SubSeq(fromEngine, 1, k))
                       ELSE None]
    /\ pairPc' = [pairPc EXCEPT ![c] = "returned"]
    /\ UNCHANGED <<asked, requests, toEngine, events>>
    /\ PairFrame

PairNext ==
    \/ \E c \in Callers : \E cmd \in CommandsOf(c) : PairSend(c, cmd)
    \/ MpvReplies
    \/ MpvEvent
    \/ \E c \in Callers : \E k \in 1..MaxRequests + MaxEvents : PairRecv(c, k)

InitPair ==
    /\ PairLife
    /\ PropIdle
    /\ PctIdle
    /\ SnapInit
    /\ ExtIdle

SpecPair == InitPair /\ [][PairNext]_vars

(***************************************************************************)
(* Signals.  Interface.__init__ installs Interface._signal_handler for     *)
(* SIGINT and SIGTERM (interface.py 39-40).  Python runs a handler on the  *)
(* main thread, on top of whatever the main thread is executing, and the   *)
(* interrupted code goes on only when the handler returns or raises.  The  *)
(* main thread is therefore a stack of frames: the program at the bottom,  *)
(* one handler invocation above it for every signal being handled.         *)
(* _process_lock (player.py 30) is a threading.Lock: an acquire waits      *)
(* until the lock is free, whoever holds it.  PlayerThread.run holds it    *)
(* only around one set operation (161-162) on its own thread and is left   *)
(* out here.                                                               *)
(***************************************************************************)

\* Signals delivered in one run.
MaxSignals == 2

\* The frame that is executing, and its position.
TopPc == stack[Len(stack)].pc

Goto(pc) == stack' = [stack EXCEPT ![Len(stack)].pc = pc]

SigFrame ==
    UNCHANGED <<nextSession, enginePaused, rpc, attempts, mpvPath, failure, uiPc,
                uiOp, lastCall, prevCall, lastQuery, propVars, pctVars, snapVars,
                termVars, exitVars, sendVars, shutVars, wireVars, searchVars,
                pairVars, keyVars>>

\* the session's fields, for the steps that touch none of them
SigSession ==
    UNCHANGED <<playing, playback, _mpv_processes, sockFile, engine, process, sock,
                peer>>

\* The kernel delivers SIGINT or SIGTERM: 92-96, _signal_handler starts with
\* self._cleanup(), and goes on to sys.exit(0) when that returns.
SignalArrives ==
    /\ signals < MaxSignals
    /\ stack[1].pc # "exited"
    /\ signals' = signals + 1
    /\ stack' = Append(stack, [pc |-> "c_set", ret |-> "sysexit"])
    /\ UNCHANGED process_lock
    /\ SigSession
    /\ SigFrame

\* 277-278: item_chosen in the main loop calls self.player.stop();
\* player.py 474-476: if self.playback: self.playback.terminate()
MainStops ==
    /\ Len(stack) = 1
    /\ TopPc = "loop"
    /\ playback # NoSession
    /\ stack' = <<[pc |-> "t_sock", ret |-> "loop"]>>
    /\ UNCHANGED <<process_lock, signals>>
    /\ SigSession
    /\ SigFrame

\* 84-90: the main loop is over; finally: self._cleanup(), then the exit hooks
MainLoopEnds ==
    /\ Len(stack) = 1
    /\ TopPc = "loop"
    /\ stack' = <<[pc |-> "c_set", ret |-> "h_orphan"]>>
    /\ UNCHANGED <<process_lock, signals>>
    /\ SigSession
    /\ SigFrame

\* 101-105: update_event.set(); join(timeout=1)
SigCleanupSet ==
    /\ TopPc = "c_set"
    /\ Goto("c_stop")
    /\ UNCHANGED <<process_lock, signals>>
    /\ SigSession
    /\ SigFrame

\* 106-107, player.py 548-551, 474-476: self.player.cleanup() -> stop():
\* terminate the session if there is one
SigCleanupStop ==
    /\ TopPc = "c_stop"
    /\ Goto(IF playback # NoSession THEN "t_sock" ELSE stack[Len(stack)].ret)
    /\ UNCHANGED <<process_lock, signals>>
    /\ SigSession
    /\ SigFrame

\* 200-210
SigTermSock ==
    /\ TopPc = "t_sock"
    /\ terminate_sock(T)
    /\ Goto("t_proc")
    /\ UNCHANGED <<playing, playback, _mpv_processes, sockFile, engine, process,
                   process_lock, signals>>
    /\ SigFrame

\* 213-215: if self.process: pid = ...; try:
SigTermProc ==
    /\ TopPc = "t_proc"
    /\ Goto(IF terminate_has_process(T) THEN "t_acquire" ELSE "t_unlink")
    /\ UNCHANGED <<process_lock, signals>>
    /\ SigSession
    /\ SigFrame

\* Lock.acquire(): returns when the lock is free, and not before
\* (an RLock lets the thread that holds it in again)
CanAcquire_reentrant == process_lock = 0 \/ process_lock \in 1..Len(stack)

CanAcquire == process_lock = 0

\* 217: with _process_lock:
SigTermAcquire ==
    /\ TopPc = "t_acquire"
    /\ CanAcquire
    /\ process_lock' = Len(stack)
    /\ Goto("t_locked")
    /\ UNCHANGED signals
    /\ SigSession
    /\ SigFrame

\* 218: _mpv_processes.discard(pid), and the end of the with block
SigTermDiscard ==
    /\ TopPc = "t_locked"
    /\ terminate_discard(T)
    /\ process_lock' = 0
    /\ Goto("t_kill")
    /\ UNCHANGED <<playing, playback, sockFile, engine, process, sock, peer, signals>>
    /\ SigFrame

\* 221-258
SigTermKill ==
    /\ TopPc = "t_kill"
    /\ terminate_kill(T)
    /\ Goto("t_unlink")
    /\ UNCHANGED <<playing, playback, _mpv_processes, sock, peer, process_lock,
                   signals>>
    /\ SigFrame

\* 261-265
SigTermUnlink ==
    /\ TopPc = "t_unlink"
    /\ terminate_unlink
    /\ Goto("s_finally")
    /\ UNCHANGED <<playing, playback, _mpv_processes, engine, process, sock, peer,
                   process_lock, signals>>
    /\ SigFrame

\* 479-481: finally: self.playback = None; self.playing = False; stop returns
\* to item_chosen, to _cleanup in the finally of the main loop, or to _cleanup
\* in the handler
SigStopFinally ==
    /\ TopPc = "s_finally"
    /\ playback' = NoSession
    /\ playing' = FALSE
    /\ Goto(stack[Len(stack)].ret)
    /\ UNCHANGED <<_mpv_processes, sockFile, engine, process, sock, peer,
                   process_lock, signals>>
    /\ SigFrame

\* the frames the exception of sys.exit passes through
InTry(f) == f.pc \in {"t_acquire", "t_locked", "t_kill"}

InStop(f) == f.pc \in {"t_sock", "t_proc", "t_acquire", "t_locked", "t_kill",
                       "t_unlink", "s_finally"}

\* where the program goes on once SystemExit has passed through frame f of
\* the program: in the main loop's try, the finally of 88-90 runs _cleanup;
\* in that _cleanup, the exit hooks come next; in the first hook, the second;
\* in the second, the process is over
AfterSysExit(f) ==
    IF f.pc = "loop" \/ f.ret = "loop" THEN "c_set"
    ELSE IF f.pc \in {"h_acquire", "h_locked", "exited"} THEN
            (IF f.pc = "h_acquire" THEN "h_acquire" ELSE "exited")
    ELSE "h_orphan"

\* 96: sys.exit(0) in the handler: SystemExit unwinds the handler and every
\* frame under it; a with block that is left releases the lock (217, 35), the
\* finally of 257-258 clears self.process, that of 479-481 the playback
SigSysExit ==
    /\ TopPc = "sysexit"
    /\ LET unwound == {stack[i] : i \in 1..Len(stack)}
       IN  /\ process' = [process EXCEPT
                             ![T] = IF \E f \in unwound : InTry(f) THEN FALSE ELSE @]
           /\ playback' = IF \E f \in unwound : InStop(f) THEN NoSession ELSE playback
           /\ playing' = IF \E f \in unwound : InStop(f) THEN FALSE ELSE playing
    /\ process_lock' = 0
    /\ _mpv_processes' = IF stack[1].pc = "h_locked" THEN {} ELSE _mpv_processes
    /\ stack' = <<[pc |-> AfterSysExit(stack[1]), ret |-> "h_orphan"]>>
    /\ UNCHANGED <<sockFile, engine, sock, peer, signals>>
    /\ SigFrame

\* atexit, first hook run: _cleanup_orphaned_mpv (registered last, line 93)
SigHookOrphaned ==
    /\ TopPc = "h_orphan"
    /\ sockFile' = cleanup_orphaned_mpv
    /\ Goto("h_acquire")
    /\ UNCHANGED <<playing, playback, _mpv_processes, engine, process, sock, peer,
                   process_lock, signals>>
    /\ SigFrame

\* 35: with _process_lock:
SigHookAcquire ==
    /\ TopPc = "h_acquire"
    /\ CanAcquire
    /\ process_lock' = Len(stack)
    /\ Goto("h_locked")
    /\ UNCHANGED signals
    /\ SigSession
    /\ SigFrame

\* 36-68: signal every tracked pid, clear the registry, leave the with block
SigHookProcesses ==
    /\ TopPc = "h_locked"
    /\ engine' = [e \in Sessions |->
                     IF e \in _mpv_processes /\ engine[e] \in Alive
                     THEN "dead" ELSE engine[e]]
    /\ _mpv_processes' = {}
    /\ process_lock' = 0
    /\ Goto("exited")
    /\ UNCHANGED <<playing, playback, sockFile, process, sock, peer, signals>>
    /\ SigFrame

SigNext ==
    \/ SignalArrives
    \/ MainStops
    \/ MainLoopEnds
    \/ SigCleanupSet
    \/ SigCleanupStop
    \/ SigTermSock
    \/ SigTermProc
    \/ SigTermAcquire
    \/ SigTermDiscard
    \/ SigTermKill
    \/ SigTermUnlink
    \/ SigStopFinally
    \/ SigSysExit
    \/ SigHookOrphaned
    \/ SigHookAcquire
    \/ SigHookProcesses

InitSignal ==
    /\ PairLife
    /\ PropIdle
    /\ PctIdle
    /\ SnapInit
    /\ ExtIdle

SpecSignal == InitSignal /\ [][SigNext]_vars

(***************************************************************************)
(* The keyboard.  urwid hands a key to the focused widget, the list box    *)
(* (CustomListBox.keypress, custom_list_box.py 29-49); what the list box   *)
(* does not act on it passes to Interface.handle_keypress (interface.py    *)
(* 292-326), whose None result tells urwid that the key is dealt with.     *)
(* Enter in search mode starts Player.search on a thread of its own        *)
(* (353-364); its callback (366-406) ends search mode.                     *)
(***************************************************************************)

\* Longest status text typed.
MaxStatus == 2

\* Searches submitted in one run.
MaxSubmits == 2

\* The keys of one character, and those urwid names with a word.
CharKeys == {"q", "Q", " ", "h", "l", "j", "k", "/", "a"}

NamedKeys == {"enter", "backspace", "up"}

\* len(key)
KeyLen(key) ==
    IF key = "enter" THEN 5 ELSE IF key = "backspace" THEN 9
    ELSE IF key = "up" THEN 2 ELSE 1

\* config.py 20
HANDLED_KEYS == {"k", "j", "enter"}

\* 355: self.status_text[1:] if self.status_text.startswith('/')
\*      else self.status_text
query_of(text) ==
    IF text # <<>> /\ Head(text) = "/" THEN Tail(text) ELSE text

\* text[:-1]
Front(text) == IF text = <<>> THEN <<>> ELSE SubSeq(text, 1, Len(text) - 1)

KeyFrame ==
    UNCHANGED <<lifeVars, propVars, pctVars, snapVars, termVars, exitVars, sendVars,
                shutVars, wireVars, searchVars, pairVars, sigVars>>

\* custom_list_box.py 39-47: outside search mode the list box acts on
\* enter (the focused button is pressed) and on j / k (the focus moves)
ListBoxKey(key) ==
    /\ ~quit
    /\ ~searching
    /\ key \in HANDLED_KEYS
    /\ lastKey' = key
    /\ effect' = IF key = "enter" THEN "activate" ELSE "focus"
    /\ UNCHANGED <<searching, status_text, submitted, inflight, quit>>
    /\ KeyFrame

\* custom_list_box.py 49 -> handle_keypress
Unhandled(key) == ~quit /\ (searching \/ key \notin HANDLED_KEYS)

\* 299-302
KeyBackspace ==
    /\ Unhandled("backspace")
    /\ lastKey' = "backspace"
    /\ status_text' = Front(status_text)
    /\ effect' = IF status_text # <<>> THEN "erase" ELSE "none"
    /\ UNCHANGED <<searching, submitted, inflight, quit>>
    /\ KeyFrame

\* 303-306, 353-364: enter in search mode: handle_search
KeyEnterSearching ==
    /\ Unhandled("enter")
    /\ searching
    /\ inflight < MaxSubmits
    /\ lastKey' = "enter"
    /\ submitted' = Some(query_of(status_text))
    /\ inflight' = inflight + 1
    /\ effect' = "submit"
    /\ UNCHANGED <<searching, status_text, quit>>
    /\ KeyFrame

\* 307-310: any other key in search mode: appended if it is one character
KeySearching(key) ==
    /\ Unhandled(key)
    /\ searching
    /\ key \notin {"backspace", "enter"}
    /\ KeyLen(key) = 1 => Len(status_text) < MaxStatus
    /\ lastKey' = key
    /\ status_text' = IF KeyLen(key) = 1 THEN Append(status_text, key) ELSE status_text
    /\ effect' = IF KeyLen(key) = 1 THEN "append" ELSE "none"
    /\ UNCHANGED <<searching, submitted, inflight, quit>>
    /\ KeyFrame

\* 311-326: outside search mode
KeyCommand(key) ==
    /\ Unhandled(key)
    /\ ~searching
    /\ key # "backspace"
    /\ lastKey' = key
    /\ quit' = (key \in {"q", "Q"})
    /\ searching' = (key = "/")
    /\ status_text' = IF key = "/" THEN <<"/">> ELSE status_text
    /\ effect' = IF key \in {"q", "Q"} THEN "quit"
                 ELSE IF key = "/" THEN "search"
                 ELSE IF key = " " THEN "toggle"
                 ELSE IF key \in {"h", "l"} THEN "seek"
                 ELSE "none"
    /\ UNCHANGED <<submitted, inflight>>
    /\ KeyFrame

\* 366-406: search_thread_callback on the search thread: no results (373-376)
\* or an exception (403-406): searching = False, the status text is kept;
\* results shown (400-402): searching = False, status_text = ''
SearchCallback(outcome) ==
    /\ inflight > 0
    /\ inflight' = inflight - 1
    /\ searching' = FALSE
    /\ status_text' = IF outcome = "results" THEN <<>> ELSE status_text
    /\ effect' = "callback"
    /\ UNCHANGED <<lastKey, submitted, quit>>
    /\ KeyFrame

KeyNext ==
    \/ \E key \in HANDLED_KEYS : ListBoxKey(key)
    \/ KeyBackspace
    \/ KeyEnterSearching
    \/ \E key \in CharKeys \cup NamedKeys : KeySearching(key)
    \/ \E key \in CharKeys \cup NamedKeys : KeyCommand(key)
    \/ \E outcome \in {"results", "empty", "error"} : SearchCallback(outcome)

SpecKeys == Init /\ [][KeyNext]_vars

(***************************************************************************)
(* Properties of the lifecycle.                                            *)
(***************************************************************************)

\* The UI thread is between Player calls and the last one was Player.start.
AfterStart == uiPc = "idle" /\ lastCall = "start"

\* C1: once a second Player.start has completed and every worker has finished
\* run, with the new session connected and its engine running, the engines
\* alive are exactly that one: no engine of an earlier session is alive.
C1_OneEngineAfterSecondStart ==
    (/\ nextSession >= 2
     /\ AfterStart
     /\ WorkersQuiescent
     /\ rpc[playback] = "done_ok"
     /\ engine[playback] \in Alive)
    => AliveEngines = {playback}

\* C2: after Player.start followed immediately by Player.stop, once every
\* thread is quiescent, the registry is empty, the control-socket file does not
\* exist and the engine of that start is not alive.
C2_StartStopLeavesNothing ==
    (/\ prevCall = "start"
     /\ lastCall = "stop"
     /\ uiPc = "idle"
     /\ WorkersQuiescent)
    => /\ _mpv_processes = {}
       /\ sockFile = NoSession
       /\ engine[nextSession] \notin Alive

\* C3: after Player.start, once the start attempt (run) has finished,
\* Player.playing is true exactly when the engine was spawned and the channel
\* connected; it is false after EngineNotFound or ConnectFailed.
C3_PlayingOnlyOnSuccess ==
    (AfterStart /\ rpc[playback] \in Finished)
    => (playing <=> rpc[playback] = "done_ok")

\* C9: run makes at most max_retries connect attempts and none after a
\* success; when it has finished after max_retries failed attempts
\* (ConnectFailed), the engine it spawned is not alive and its pid is not in
\* the registry.
C9_RetryExhaustionCleansUp ==
    \A s \in Sessions :
        /\ attempts[s] <= max_retries
        /\ rpc[s] \in {"connect", "lastfail"} => sock[s] # "connected"
        /\ (rpc[s] = "done_err" /\ failure[s] = "ConnectFailed")
           => /\ attempts[s] = max_retries
              /\ engine[s] \notin Alive
              /\ s \notin _mpv_processes

\* C10: when shutil.which finds no mpv, run spawns no engine, creates no
\* socket, makes no connect attempt, and no step of that run changes the
\* registry.
C10_EngineNotFoundFailsFast ==
    [][\A s \in Sessions :
          mpvPath'[s] = "missing"
          => /\ engine'[s] = "none"
             /\ ~process'[s]
             /\ sock'[s] = "none"
             /\ attempts'[s] = 0
             /\ s \notin _mpv_processes'
             /\ rpc'[s] # rpc[s] => _mpv_processes' = _mpv_processes]_lifeVars

\* C10's case: a run that found no mpv has finished with EngineNotFound.
C10_Witness ==
    \E s \in Sessions :
        /\ mpvPath[s] = "missing"
        /\ rpc[s] = "done_err"
        /\ failure[s] = "EngineNotFound"

(***************************************************************************)
(* Properties of the control calls.                                        *)
(***************************************************************************)

\* C4: after Player.play or Player.pause has returned with a paused-state
\* re-query that succeeded with value p, Player.playing equals not p,
\* whichever action was sent.
C4_PlayingFollowsQuery ==
    (uiPc = "idle" /\ lastCall \in {"play", "pause"} /\ lastQuery \in {Some("true"), Some("false")})
    => (playing <=> lastQuery = Some("false"))

\* C4's case against the action sent: play() returned, the engine answered the
\* re-query with paused=true, and playing is false.
C4_Witness ==
    /\ uiPc = "idle"
    /\ lastCall = "play"
    /\ lastQuery = Some("true")
    /\ ~playing

\* C5: a control call made while the channel of the active session is
\* unreachable returns None and leaves Player.playing as it was.
C5_UnreachableKeepsPlaying ==
    [][(/\ playback # NoSession
        /\ ~Reachable(playback)
        /\ (\/ Requery
            \/ \E seconds \in SeekSeconds : \E relative \in BOOLEAN : CallSeek(seconds, relative)
            \/ \E name \in {"pause", "time-pos", "duration"} : CallQuery(name)))
       => (lastQuery' = None /\ playing' = playing)]_lifeVars

(***************************************************************************)
(* Properties of get_property.                                             *)
(***************************************************************************)

\* The response is a single JSON object that has a "data" member.
SingleObjectWithData(r) ==
    /\ ~Undecodable(r)
    /\ Loadable(r)
    /\ json_loads(r).t = "object"
    /\ json_loads(r).data # "absent"

\* C6: for every response, get_property returns the value of "data" when the
\* response is a single JSON object containing it and None otherwise; it
\* never raises.
C6_GetPropertyTotal ==
    gpPc = "returned"
    => /\ gpResult # Raised
       /\ gpResult = IF SingleObjectWithData(response)
                     THEN PyValue(json_loads(response).data)
                     ELSE None

(***************************************************************************)
(* Properties of the progress formula.                                     *)
(***************************************************************************)

\* C7: the percent computed by the poller and by play_pause_toggle is in
\* [0,100] for every position/duration pair, and is 0 whenever the duration
\* is None or <= 0 or the position is None.
C7_PercentInRange ==
    pctPc # "input"
    => /\ ~FracLess(pctOut, Frac(0, 1))
       /\ ~FracLess(Frac(100, 1), pctOut)
       /\ (pctDur = None \/ pctPos = None) => pctOut[1] = 0
       /\ (pctDur # None /\ pctDur[1] <= 0) => pctOut[1] = 0

\* The position is past the end of the track, and the percent was clamped.
C7_Witness ==
    /\ pctPc = "poller"
    /\ pctPos = Some(MaxSeconds)
    /\ pctDur = Some(MaxSeconds - 1)
    /\ pctOut = Frac(100, 1)

(***************************************************************************)
(* Properties of the shared snapshot.                                      *)
(***************************************************************************)

\* C8: in every state of the shared snapshot, the states between two field
\* writes of a poller tick or of item_chosen included, if _latest_duration
\* is None or <= 0 then _latest_progress is 0.
C8_NoProgressWithoutDuration ==
    (latest_duration = None \/ latest_duration[1] <= 0)
    => latest_progress[1] = 0

(***************************************************************************)
(* Properties of terminate and stop taken on their own.                    *)
(***************************************************************************)

\* What a stop or a terminate acts on.
TornDown == <<playing, playback, _mpv_processes, sockFile, engine, process, sock, peer>>

\* A step of a call that repeats the call just completed.
RepeatedCallStep == termCalls >= 1 /\ termPc' # "idle" /\ uiOp' = lastCall

\* A step of Player.stop() called with self.playback None.
StopWithoutSessionStep ==
    /\ uiOp' = "stop"
    /\ termCalls' = termCalls + 1
    /\ playback = NoSession

\* C11: Player.stop() with no session changes nothing, and a second
\* Player.stop() or PlayerThread.terminate() in a row changes nothing that the
\* first call left; no call raises.
C11_StopIdempotent ==
    [][/\ (RepeatedCallStep \/ StopWithoutSessionStep) => UNCHANGED TornDown
       /\ termPc' # "raised"]_vars

\* terminate has been called twice on a session that had a live engine and a
\* connected socket.
C11_Witness ==
    /\ termCalls = MaxCalls
    /\ termPc = "returned"
    /\ uiOp = "terminate"
    /\ lastCall = "terminate"
    /\ engine[T] = "dead"
    /\ unlinkTried

\* C12: whatever steps fail inside PlayerThread.terminate, it returns without
\* raising, the pid is out of _mpv_processes, self.sock and self.process are
\* cleared and the unlink of the control-socket file was attempted.
C12_TeardownTotal ==
    /\ termPc # "raised"
    /\ (termPc = "returned" /\ uiOp = "terminate")
       => /\ T \notin _mpv_processes
          /\ sock[T] = "none"
          /\ ~process[T]
          /\ unlinkTried

\* A terminate in which the socket calls, the group signal, the graceful
\* terminate, the last-resort kill and the unlink all failed.
C12_Witness ==
    /\ termPc = "returned"
    /\ uiOp = "terminate"
    /\ {"shutdown", "close", "killpg", "terminate", "os.kill", "unlink"} \subseteq termFaults

(***************************************************************************)
(* Properties of the exit.                                                 *)
(***************************************************************************)

\* C13: after the exit hooks have run, every engine that was tracked is
\* terminated (force-killed if it ignored the graceful signal) and
\* _mpv_processes is empty.
C13_ExitKillsTracked ==
    uiPc = "exited"
    => /\ _mpv_processes = {}
       /\ \A e \in trackedAtExit : engine[e] \notin Alive

\* The application has exited with an engine tracked that ignored SIGTERM.
C13_Witness ==
    /\ uiPc = "exited"
    /\ forceKilled # {}
    /\ forceKilled \subseteq trackedAtExit

\* C14: the exit hook never signals a tracked pid that belongs to an
\* unrelated process, with and without psutil.
C14_OnlyEnginesSignalled == strangers = {}

\* C15: after Player.stop() has completed, and after both exit hooks have run,
\* the socket file is absent unless a live process listens on it.
C15_FileNeedsListener ==
    [][((uiPc' = "exited" /\ uiPc # "exited")
        \/ (uiPc = "stopped" /\ uiPc' = "idle" /\ uiOp = "stop"))
       => (sockFile' # NoSession => Listener' # NoSession)]_vars

(***************************************************************************)
(* Properties of the control channel.                                      *)
(***************************************************************************)

\* C16: every send_command call on a connected session that has sent its
\* request eventually returns, even if the engine never answers.
C16_SendCommandReturns == (sndPc = "recv") ~> (sndPc = "returned")

(***************************************************************************)
(* Properties of the shutdown.                                             *)
(***************************************************************************)

\* The poller is inside recv on a socket still connected to a live engine.
BlockedInQuery == loopPc = "recv" /\ Connected(loopSession)

ForwardOnly ==
    UNCHANGED <<playing, playback, nextSession, _mpv_processes, sockFile, engine,
                enginePaused, process, sock, peer, rpc, attempts, mpvPath, failure,
                snapVars>>

\* C18: Player.seek(seconds, relative) on an active connected session writes
\* exactly one request, ["seek", seconds, "relative" or "absolute" as the
\* flag says], and leaves playing, playback, the registry and the snapshot
\* unchanged; with no session it writes nothing and changes nothing.
C18_SeekSendsOneRequest ==
    [][/\ \A seconds \in SeekSeconds : \A relative \in BOOLEAN :
             (CallSeek(seconds, relative) /\ Reachable(playback))
             => /\ Len(sent') = 1
                /\ sent'[1] = <<"seek", seconds, IF relative THEN "relative" ELSE "absolute">>
                /\ ForwardOnly
       /\ CallNoSession("seek") => (sent' = <<>> /\ ForwardOnly)]_vars

\* seek(-10, relative=True), the 'h' key, has returned on an active session
\* and its one request is on the wire.
C18_Witness ==
    /\ uiPc = "idle"
    /\ lastCall = "seek"
    /\ playback # NoSession
    /\ sent = << <<"seek", -10, "relative">> >>

\* C19: with self.playback None, is_paused, get_time_pos and get_duration
\* return None, write no request to any socket and change no state.
C19_AccessorsWithoutSession ==
    [][\A op \in {"is_paused", "get_time_pos", "get_duration"} :
          CallNoSession(op) => (lastQuery' = None /\ sent' = <<>> /\ ForwardOnly)]_vars

\* get_duration has returned None with no session, while the socket of a
\* stopped session is connected to its engine: nothing was written to it.
C19_Witness ==
    /\ uiPc = "idle"
    /\ lastCall = "get_duration"
    /\ playback = NoSession
    /\ lastQuery = None
    /\ sent = <<>>
    /\ \E s \in Sessions : Connected(s)

(***************************************************************************)
(* Properties of the search.                                               *)
(***************************************************************************)

\* The query is empty or consists of whitespace only.
Blank(q) == \A i \in 1..Len(q) : q[i] = " "

\* C20: Player.search never propagates a failure; an empty or whitespace-only
\* query gets callback([]) without a call of the search API; a search API
\* that raises gets callback([]); in every case the callback is invoked
\* exactly once, and playing, playback and the registry are left unchanged.
C20_SearchNeverPropagates ==
    /\ [](searchPc # "raised")
    /\ [](searchPc = "returned"
          => /\ callbackCalls = 1
             /\ Blank(query) => (callbackArgs = <<"empty">> /\ apiQuery = None)
             /\ apiOutcome = "raised" => callbackArgs = <<"empty">>)
    /\ [][(searchPc' # searchPc \/ callbackCalls' # callbackCalls)
          => UNCHANGED <<playing, playback, _mpv_processes>>]_vars

\* A search whose API call raised has returned after one callback([]), while
\* a session is playing.
C20_Witness ==
    /\ searchPc = "returned"
    /\ apiOutcome = "raised"
    /\ callbackArgs = <<"empty">>
    /\ query = <<" ", "a", " ">>
    /\ apiQuery = Some(<<"a">>)
    /\ playing

(***************************************************************************)
(* Properties of a session's life.                                         *)
(***************************************************************************)

\* PlayerThread.terminate has run to its end on session s: on the UI thread
\* (Player.stop is past it, or has since dropped the session) or on the
\* worker itself (the error path of run).
Closed(s) ==
    \/ uiPc = "stopped" /\ playback = s
    \/ s <= nextSession /\ playback # s
    \/ rpc[s] = "done_err"

\* C21: once terminate has completed on a session, the session never again
\* holds a process handle or a socket, never spawns an engine and never adds
\* a pid to the registry.
C21_ClosedIsTerminal ==
    [][\A s \in Sessions :
          Closed(s) => /\ ~process'[s]
                       /\ sock'[s] = "none"
                       /\ engine[s] = "none" => engine'[s] = "none"
                       /\ s \notin _mpv_processes => s \notin _mpv_processes']_vars

(***************************************************************************)
(* Properties of the writers of the snapshot.                              *)
(***************************************************************************)

\* C22: the four snapshot fields are written only by the poller thread: every
\* step that changes one of them is a step of _update_progress_loop.
C22_OnlyPollerWrites ==
    [][UNCHANGED <<latest_time_pos, latest_duration, latest_is_paused, latest_progress>>
       \/ pollPc' # pollPc]_vars

\* C23: in every state in which session s, having spawned its engine, is
\* about to connect or has a connect attempt failing, the pid is in
\* _mpv_processes, unless a terminate has removed it (it is between its
\* discard and its kill, or has already cleared the handle).
C23_TrackedBeforeConnect ==
    \A s \in Sessions :
        (/\ rpc[s] \in {"mksock", "connect", "lastfail"}
         /\ process[s]
         /\ ~(playback = s /\ uiPc = "t_kill"))
        => s \in _mpv_processes

\* The last connect attempt of a session has failed and its engine is tracked.
C23_Witness ==
    \E s \in Sessions :
        /\ rpc[s] = "lastfail"
        /\ attempts[s] = max_retries
        /\ process[s]
        /\ s \in _mpv_processes

\* The order of terminate's own steps, one call at a time: the signalling
\* steps run with self.sock cleared, the force-kill only after the wait timed
\* out, the kill by pid only after a signalling call raised.
TerminateOrder ==
    /\ termPc \in {"poll", "sigterm", "wait", "sigkill", "lastresort"}
         => sock[T] = "none"
    /\ termPc = "sigkill" => "wait" \in termFaults
    /\ termPc = "lastresort" => termFaults \cap {"terminate", "kill"} # {}

\* C24: terminate closes the channel and clears self.sock before it signals
\* the engine: whenever a terminate of the current session is about to send
\* its signal, the session has no channel a command could be sent on.
C24_ChannelClosedBeforeSignal ==
    \A s \in Sessions :
        (playback = s /\ uiPc = "t_kill") => sock[s] = "none"

\* The snapshot of a program without a session.
SnapshotReset ==
    /\ latest_time_pos = None
    /\ latest_duration = None
    /\ latest_is_paused = None
    /\ latest_progress = Frac(0, 1)

\* The poller is between ticks or in a tick that found no session.
NoSessionTick == pollPc \in {"wait", "n_pos", "n_dur", "n_paused", "n_prog"}

\* C25: a tick that found no session ends with the snapshot reset to
\* (None, None, None, 0); and once the snapshot is reset with no session and
\* no tick of an earlier session in flight, it stays reset for as long as no
\* session is started.
C25_NoSessionResetsSnapshot ==
    [][/\ (pollPc = "n_prog" /\ pollPc' = "wait") => SnapshotReset'
       /\ (/\ SnapshotReset
           /\ NoSessionTick
           /\ playback = NoSession
           /\ playback' = NoSession) => SnapshotReset']_vars

\* After a stop, a tick that found no session has cleared the first three
\* fields and is about to clear the percentage a session left behind.
C25_Witness ==
    /\ playback = NoSession
    /\ pollPc = "n_prog"
    /\ latest_time_pos = None
    /\ latest_duration = None
    /\ latest_is_paused = None
    /\ latest_progress # Frac(0, 1)

C27_SeekDoesNotWait == sndCmd = "seek" => sndPc # "recv"

\* The session has not yet gone past the Popen of line 145.
BeforeSpawn(s) == rpc[s] \in {"unstarted", "cleanup", "which", "popen"}

C29_ResponseMatchesRequest ==
    \A c \in Callers :
        (/\ pairPc[c] = "returned"
         /\ asked[c][1] = "get_property"
         /\ received[c] # None)
        => received[c] = Some(asked[c][2])

\* C30: in every quiescent state (no run in progress, no terminate and no
\* exit hook on the UI thread) the registry omits no engine of this
\* application that is alive, and holds no pid of an engine that terminate
\* has finished with (the engine is dead and self.process cleared).
C30_RegistryAccurate ==
    (WorkersQuiescent /\ uiPc = "idle")
    => /\ AliveEngines \subseteq _mpv_processes
       /\ \A s \in _mpv_processes : ~(engine[s] = "dead" /\ ~process[s])

(***************************************************************************)
(* Properties of the signal handler.                                       *)
(***************************************************************************)

\* C31: the main thread never waits for _process_lock while one of its own
\* frames (the code a handler interrupted) holds it: such a wait cannot end,
\* because the holder runs again only after the handler has returned.
C31_HandlerNeverBlocksOnLock ==
    ~(/\ TopPc \in {"t_acquire", "h_acquire"}
      /\ process_lock \in 1..Len(stack))

(***************************************************************************)
(* Properties of the Player's two fields.                                  *)
(***************************************************************************)

\* C32: Player.playing is true only if Player.playback is set; and a stop
\* that has returned has left playback None and playing false.
C32_PlayingNeedsPlayback ==
    /\ playing => playback # NoSession
    /\ (uiPc = "idle" /\ lastCall = "stop") => (playback = NoSession /\ ~playing)

\* A stop called right after a start has returned: the session that was
\* playing is gone and the flag is false.
C32_Witness ==
    /\ uiPc = "idle"
    /\ lastCall = "stop"
    /\ prevCall = "start"
    /\ nextSession = 1
    /\ rpc[1] # "unstarted"
    /\ playback = NoSession
    /\ ~playing

\* C33: the channel of a session is connected to the engine that session
\* spawned and to no other.
C33_ChannelToOwnEngine ==
    \A s \in Sessions : peer[s] \in {NoSession, s}

(***************************************************************************)
(* Properties of the keyboard.                                             *)
(***************************************************************************)

\* A step that handles a key (the callback's step is the other kind).
KeyStep == effect' # "callback"

\* C34: in search mode no key quits, toggles play/pause, seeks, moves the
\* focus or presses a button; a key of one character is appended to the
\* query, backspace removes the query's last character, and only enter
\* submits; searching becomes true only by '/' outside search mode and false
\* only by the search callback.
C34_SearchModeIsolatesKeys ==
    [][/\ (KeyStep /\ searching)
          => /\ effect' \notin {"quit", "toggle", "seek", "focus", "activate"}
             /\ ~quit'
             /\ KeyLen(lastKey') = 1
                  => query_of(status_text') = Append(query_of(status_text), lastKey')
             /\ lastKey' = "backspace"
                  => query_of(status_text') = Front(query_of(status_text))
             /\ (submitted' # submitted \/ inflight' > inflight) => lastKey' = "enter"
       /\ (~searching /\ searching') => (KeyStep /\ lastKey' = "/")
       /\ (searching /\ ~searching') => effect' = "callback"]_vars

====
